---------------------------- MODULE Spec2Model ----------------------------
(***************************************************************************)
(* TimeTrakr: the time-input parser (shared/time.ts) and the server's      *)
(* earnings pipeline (POST /api/entries) over the ledger repository.       *)
(*                                                                         *)
(* JavaScript numbers are modelled as records: NaN, +/-Infinity, or a      *)
(* finite value held as an exact rational n/d in lowest terms.  IEEE       *)
(* rounding of doubles is abstracted to exact arithmetic; within the       *)
(* bounds below Math.round(x * 60) agrees with the exact result.           *)
(* JavaScript strings are sequences of one-character strings.              *)
(***************************************************************************)
EXTENDS Integers, Sequences, FiniteSets, TLC

(***************************************************************************)
(* Bounds                                                                  *)
(***************************************************************************)
MaxLen == 4          \* longest string handed to the parser
MaxMantissa == 200   \* number inputs are m / 10^k, m <= MaxMantissa
MaxScale == 2        \* ... with k <= MaxScale
MaxProjects == 1     \* projects ever created
MaxEntries == 1      \* time entries ever created by direct requests
MaxRows == 2         \* rows of time_entries the migration finds
MaxRuns == 2         \* runs of the migration
MaxWithdrawals == 1  \* withdrawals ever created by direct requests
MaxMilestones == 2   \* entries ever created through the entry forms
MaxPayouts == 2      \* withdrawals ever created through the withdrawal page

Digits == {"0", "1", "2", "3", "4", "5", "6", "7", "8", "9"}
Alphabet == {"0", "1", "5", "6", "7", ".", "-", "a", " "}

(***************************************************************************)
(* JavaScript numbers                                                      *)
(***************************************************************************)
RECURSIVE GCD(_, _)
GCD(a, b) == IF b = 0 THEN a ELSE GCD(b, a % b)

Abs(x) == IF x < 0 THEN -x ELSE x

NaN == [k |-> "nan", n |-> 0, d |-> 1]
Infinity == [k |-> "inf", n |-> 1, d |-> 1]
NegInfinity == [k |-> "inf", n |-> -1, d |-> 1]

Fin(n, d) ==
  LET g == GCD(Abs(n), d)
  IN  [k |-> "fin", n |-> n \div g, d |-> d \div g]

Int2Num(i) == Fin(i, 1)

IsInteger(x) == x.k = "fin" /\ x.d = 1

\* x < 0 (false for NaN)
LtZero(x) == x.k # "nan" /\ x.n < 0

\* a * b
Mul(a, b) ==
  IF a.k = "nan" \/ b.k = "nan" THEN NaN
  ELSE IF a.k = "inf" \/ b.k = "inf"
       THEN IF a.n = 0 \/ b.n = 0 THEN NaN
            ELSE IF (a.n < 0) = (b.n < 0) THEN Infinity ELSE NegInfinity
       ELSE LET g1 == GCD(Abs(a.n), b.d)
                g2 == GCD(Abs(b.n), a.d)
            IN  Fin((a.n \div g1) * (b.n \div g2), (a.d \div g2) * (b.d \div g1))

\* a + b
Add(a, b) ==
  IF a.k = "nan" \/ b.k = "nan" THEN NaN
  ELSE IF a.k = "inf" /\ b.k = "inf"
       THEN IF a.n = b.n THEN a ELSE NaN
       ELSE IF a.k = "inf" THEN a
       ELSE IF b.k = "inf" THEN b
       ELSE LET g == GCD(a.d, b.d)
            IN  Fin(a.n * (b.d \div g) + b.n * (a.d \div g), (a.d \div g) * b.d)

\* a - b
Sub(a, b) == Add(a, Mul(Int2Num(-1), b))

\* a / b for a finite, non-zero divisor b
Div(a, b) == Mul(a, Fin(IF b.n < 0 THEN -b.d ELSE b.d, Abs(b.n)))

\* a >= b (false when either is NaN)
Geq(a, b) ==
  IF a.k = "nan" \/ b.k = "nan" THEN FALSE
  ELSE IF a.k = "inf" THEN a.n > 0 \/ a = b
  ELSE IF b.k = "inf" THEN b.n < 0
  ELSE LET g == GCD(a.d, b.d)
       IN  a.n * (b.d \div g) >= b.n * (a.d \div g)

\* Math.trunc in place of Math.round
MathTrunc(x) ==
  IF x.k # "fin" THEN x
  ELSE Int2Num(IF x.n >= 0 THEN x.n \div x.d ELSE -((-x.n) \div x.d))

\* Math.round: nearest integer, ties towards +Infinity
MathRound(x) ==
  IF x.k # "fin" THEN x ELSE Int2Num((2 * x.n + x.d) \div (2 * x.d))

\* Math.max(a, b)
MathMax(a, b) ==
  IF a.k = "nan" \/ b.k = "nan" THEN NaN
  ELSE IF Geq(a, b) THEN a ELSE b

\* x || 0 on a number: NaN and 0 are falsy
OrZero(x) == IF x.k = "nan" THEN Int2Num(0) ELSE x

(***************************************************************************)
(* JavaScript strings                                                      *)
(***************************************************************************)
DigitVal(c) ==
  CASE c = "0" -> 0 [] c = "1" -> 1 [] c = "2" -> 2 [] c = "3" -> 3
    [] c = "4" -> 4 [] c = "5" -> 5 [] c = "6" -> 6 [] c = "7" -> 7
    [] c = "8" -> 8 [] c = "9" -> 9

DigitChar(i) ==
  CASE i = 0 -> "0" [] i = 1 -> "1" [] i = 2 -> "2" [] i = 3 -> "3"
    [] i = 4 -> "4" [] i = 5 -> "5" [] i = 6 -> "6" [] i = 7 -> "7"
    [] i = 8 -> "8" [] i = 9 -> "9"

RECURSIVE TrimStart(_)
TrimStart(s) ==
  IF s # <<>> /\ Head(s) = " " THEN TrimStart(Tail(s)) ELSE s

RECURSIVE TrimEnd(_)
TrimEnd(s) ==
  IF s # <<>> /\ s[Len(s)] = " " THEN TrimEnd(SubSeq(s, 1, Len(s) - 1)) ELSE s

\* String.prototype.trim
Trim(s) == TrimEnd(TrimStart(s))

\* s.split("."): the parts between the dots
RECURSIVE Split(_)
Split(s) ==
  IF \E i \in 1..Len(s) : s[i] = "."
  THEN LET i == CHOOSE j \in 1..Len(s) :
                  s[j] = "." /\ \A h \in 1..(j - 1) : s[h] # "."
       IN  <<SubSeq(s, 1, i - 1)>> \o Split(SubSeq(s, i + 1, Len(s)))
  ELSE <<s>>

\* s.slice(0, 1)
Slice1(s) == SubSeq(s, 1, IF Len(s) < 1 THEN Len(s) ELSE 1)

\* s.slice(0, 2)
Slice2(s) == SubSeq(s, 1, IF Len(s) < 2 THEN Len(s) ELSE 2)

\* s.padEnd(2, "0")
PadEnd2(s) ==
  IF Len(s) >= 2 THEN s
  ELSE IF Len(s) = 1 THEN s \o <<"0">> ELSE <<"0", "0">>

\* the longest prefix of s made of digits
RECURSIVE DigitPrefix(_)
DigitPrefix(s) ==
  IF s # <<>> /\ Head(s) \in Digits
  THEN <<Head(s)>> \o DigitPrefix(Tail(s)) ELSE <<>>

\* the value of a digit string (0 for the empty string)
RECURSIVE DigitsValue(_)
DigitsValue(ds) ==
  IF ds = <<>> THEN 0
  ELSE 10 * DigitsValue(SubSeq(ds, 1, Len(ds) - 1)) + DigitVal(ds[Len(ds)])

RECURSIVE Pow10(_)
Pow10(k) == IF k = 0 THEN 1 ELSE 10 * Pow10(k - 1)

InfinityText == <<"I", "n", "f", "i", "n", "i", "t", "y">>
NaNText == <<"N", "a", "N">>

StartsWith(s, p) == Len(s) >= Len(p) /\ SubSeq(s, 1, Len(p)) = p

\* Number.parseInt(s, 10)
ParseInt(s) ==
  LET t == TrimStart(s)
      neg == t # <<>> /\ Head(t) = "-"
      u == IF t # <<>> /\ Head(t) \in {"-", "+"} THEN Tail(t) ELSE t
      ds == DigitPrefix(u)
  IN  IF ds = <<>> THEN NaN
      ELSE Int2Num(IF neg THEN -DigitsValue(ds) ELSE DigitsValue(ds))

\* parseFloat(s); an exponent part cannot occur over Alphabet
ParseFloat(s) ==
  LET t == TrimStart(s)
      neg == t # <<>> /\ Head(t) = "-"
      u == IF t # <<>> /\ Head(t) \in {"-", "+"} THEN Tail(t) ELSE t
      ip == DigitPrefix(u)
      r == SubSeq(u, Len(ip) + 1, Len(u))
      fp == IF r # <<>> /\ Head(r) = "." THEN DigitPrefix(Tail(r)) ELSE <<>>
      mag == Fin(DigitsValue(ip) * Pow10(Len(fp)) + DigitsValue(fp), Pow10(Len(fp)))
  IN  IF StartsWith(u, InfinityText) THEN (IF neg THEN NegInfinity ELSE Infinity)
      ELSE IF ip = <<>> /\ fp = <<>> THEN NaN
      ELSE IF neg THEN Mul(Int2Num(-1), mag) ELSE mag

\* the decimal digits of a non-negative integer
RECURSIVE IntToString(_)
IntToString(i) ==
  IF i < 10 THEN <<DigitChar(i)>>
  ELSE IntToString(i \div 10) \o <<DigitChar(i % 10)>>

\* the k decimal digits of f < 10^k, trailing zeros dropped
RECURSIVE FractionDigits(_, _)
FractionDigits(f, k) ==
  IF f = 0 \/ k = 0 THEN <<>>
  ELSE <<DigitChar(f \div Pow10(k - 1))>> \o FractionDigits(f % Pow10(k - 1), k - 1)

(***************************************************************************)
(* Values handed to the parser: value: number | string                     *)
(***************************************************************************)
StrInput(s) ==
  [kind |-> "string", s |-> s, sp |-> "fin", neg |-> FALSE, m |-> 0, k |-> 0]

\* the number (-1)^neg * m / 10^k, or NaN / +-Infinity when sp says so
NumInput(sp, neg, m, k) ==
  [kind |-> "number", s |-> <<>>, sp |-> sp, neg |-> neg, m |-> m, k |-> k]

RECURSIVE StringsUpTo(_)
StringsUpTo(n) ==
  IF n = 0 THEN {<<>>}
  ELSE LET shorter == StringsUpTo(n - 1)
       IN  shorter \cup {Append(s, c) : s \in {t \in shorter : Len(t) = n - 1},
                                        c \in Alphabet}

Inputs ==
  {StrInput(s) : s \in StringsUpTo(MaxLen)}
    \cup {StrInput(InfinityText)}
    \cup {NumInput("fin", neg, m, k) :
            neg \in BOOLEAN, m \in 0..MaxMantissa, k \in 0..MaxScale}
    \cup {NumInput("nan", FALSE, 0, 0), NumInput("inf", FALSE, 0, 0),
          NumInput("inf", TRUE, 0, 0)}

\* opts?: { format?, allowLegacyInference? }; "unset" is an omitted key
Options ==
  [format : {"unset", "hm", "fractional"},
   allowLegacyInference : {"unset", "true", "false"}]

\* the numeric value of a number input
NumberOf(v) ==
  IF v.sp = "nan" THEN NaN
  ELSE IF v.sp = "inf" THEN (IF v.neg THEN NegInfinity ELSE Infinity)
  ELSE Fin(IF v.neg THEN -v.m ELSE v.m, Pow10(v.k))

\* Number.prototype.toString of m / 10^k: shortest decimal form
NumberToString(v) ==
  IF v.sp = "nan" THEN NaNText
  ELSE IF v.sp = "inf" THEN (IF v.neg THEN <<"-">> ELSE <<>>) \o InfinityText
  ELSE LET ip == v.m \div Pow10(v.k)
           fp == FractionDigits(v.m % Pow10(v.k), v.k)
       IN  (IF v.neg /\ v.m # 0 THEN <<"-">> ELSE <<>>)
             \o IntToString(ip)
             \o (IF fp = <<>> THEN <<>> ELSE <<".">> \o fp)

\* String(value)
String(v) == IF v.kind = "string" THEN v.s ELSE NumberToString(v)

(***************************************************************************)
(* shared/time.ts                                                          *)
(***************************************************************************)
normalizeMinutes(x) == MathMax(Int2Num(0), MathRound(x))

minutesToHoursDecimal(minutes) == Div(normalizeMinutes(minutes), Int2Num(60))

Thrown == [status |-> "error", minutes |-> NaN, hadOverflow |-> FALSE]

\* parseHm without padEnd(2, "0"): "1.5" reads as 1 h 5 min
parseHmNoPad(v) ==
  LET asString == Trim(String(v))
      numeric == IF v.kind = "number" THEN NumberOf(v) ELSE ParseFloat(asString)
      parts == Split(asString)
      hoursPart == parts[1]
      minutesPartRaw == IF Len(parts) >= 2 THEN parts[2] ELSE <<>>
      hours == OrZero(ParseInt(IF hoursPart = <<>> THEN <<"0">> ELSE hoursPart))
      minuteDigits == IF minutesPartRaw # <<>>
                      THEN ParseInt(Slice2(minutesPartRaw))
                      ELSE Int2Num(0)
      totalMinutes == normalizeMinutes(Add(Mul(hours, Int2Num(60)), minuteDigits))
  IN  IF numeric.k = "nan" \/ LtZero(numeric) THEN Thrown
      ELSE [status |-> "ok", minutes |-> totalMinutes,
            hadOverflow |-> Geq(minuteDigits, Int2Num(60))]

parseHm(v) ==
  LET asString == Trim(String(v))
      numeric == IF v.kind = "number" THEN NumberOf(v) ELSE ParseFloat(asString)
      parts == Split(asString)
      hoursPart == parts[1]
      minutesPartRaw == IF Len(parts) >= 2 THEN parts[2] ELSE <<>>
      hours == OrZero(ParseInt(IF hoursPart = <<>> THEN <<"0">> ELSE hoursPart))
      minuteDigits == IF minutesPartRaw # <<>>
                      THEN ParseInt(PadEnd2(Slice2(minutesPartRaw)))
                      ELSE Int2Num(0)
      totalMinutes == normalizeMinutes(Add(Mul(hours, Int2Num(60)), minuteDigits))
  IN  IF numeric.k = "nan" \/ LtZero(numeric) THEN Thrown
      ELSE [status |-> "ok", minutes |-> totalMinutes,
            hadOverflow |-> Geq(minuteDigits, Int2Num(60))]

\* parseFractional without the conversion of hours to minutes
parseFractionalUnscaled(v) ==
  LET asString == Trim(String(v))
      numeric == IF v.kind = "number" THEN NumberOf(v) ELSE ParseFloat(asString)
  IN  IF numeric.k = "nan" \/ LtZero(numeric) THEN Thrown
      ELSE [status |-> "ok", minutes |-> normalizeMinutes(numeric),
            hadOverflow |-> FALSE]

parseFractional(v) ==
  LET asString == Trim(String(v))
      numeric == IF v.kind = "number" THEN NumberOf(v) ELSE ParseFloat(asString)
  IN  IF numeric.k = "nan" \/ LtZero(numeric) THEN Thrown
      ELSE [status |-> "ok", minutes |-> normalizeMinutes(Mul(numeric, Int2Num(60))),
            hadOverflow |-> FALSE]

\* firstDigit > 5 where firstDigit = parseInt(decimal[0], 10)
FirstDigitAboveFive(decimal) ==
  LET firstDigit == ParseInt(<<decimal[1]>>)
  IN  firstDigit.k = "fin" /\ firstDigit.n > 5

\* secondDigit > 5 where secondDigit = parseInt(decimal[1], 10)
SecondDigitAboveFive(decimal) ==
  LET secondDigit == ParseInt(<<decimal[2]>>)
  IN  secondDigit.k = "fin" /\ secondDigit.n > 5

shouldInferLegacy(v) ==
  LET asString == String(v)
      parts == Split(asString)
      decimal == IF Len(parts) >= 2 THEN parts[2] ELSE <<>>
  IN  IF decimal = <<>> THEN FALSE
      ELSE IF Len(decimal) > 2 THEN TRUE
      ELSE IF Len(decimal) = 2 THEN ~SecondDigitAboveFive(decimal)
      ELSE TRUE

\* useLegacy without the !opts?.format test: the heuristic overrides "hm"
useLegacyUnguarded(v, o) ==
  o.format = "fractional"
    \/ (o.allowLegacyInference # "false" /\ shouldInferLegacy(v))

\* useLegacy of parseTimeInput
useLegacy(v, o) ==
  o.format = "fractional"
    \/ (o.format = "unset" /\ o.allowLegacyInference # "false" /\ shouldInferLegacy(v))

parseTimeInput(v, o) ==
  IF useLegacy(v, o)
  THEN LET p == parseFractional(v)
       IN  [status |-> p.status, minutes |-> p.minutes, hadOverflow |-> p.hadOverflow,
            format |-> "fractional", usedLegacyFractional |-> TRUE, source |-> v]
  ELSE LET p == parseHm(v)
       IN  [status |-> p.status, minutes |-> p.minutes, hadOverflow |-> p.hadOverflow,
            format |-> "hm", usedLegacyFractional |-> FALSE, source |-> v]

(***************************************************************************)
(* Ledger repository (server/storage.ts over shared/schema.ts)             *)
(***************************************************************************)
VARIABLES projects, deductions, currencySettings, timeEntries,
          nextProjectId, nextEntryId, withdrawals, nextWithdrawalId

\* the storage calls under way: what each has read so far
VARIABLES calls

\* the requests that may be handled at the same time
Callers == {"a", "b", "c"}

\* no storage call is under way
NoCalls == [c \in Callers |-> [pc |-> "idle", existing |-> <<>>]]

\* the module state of the serverless entry point (api/[...].ts 46-47) and
\* the number of times registerRoutes has completed on the Express app
VARIABLES app, initialized, registered
instanceVars == <<app, initialized, registered>>

\* let app = null
Null == "null"

\* a function instance that has served no request yet
ColdStart ==
  /\ app = Null
  /\ initialized = FALSE
  /\ registered = 0

\* the hours-to-minutes migration of the time_entries table: whether the
\* columns minutes, input_format and raw_input exist, how the last run
\* ended, and the number of runs
VARIABLES migration

\* a database the migration has never been run against
NotMigrated == [columns |-> FALSE, outcome |-> "none", runs |-> 0]

\* the parser's call state (below) is no part of the ledger
VARIABLES value, opts, parsed, inferred, parserPc

parserVars == <<value, opts, parsed, inferred, parserPc>>

\* the pages open in browsers (the entry forms, the withdrawal page) and
\* the status a client of POST /api/entries was answered last
VARIABLES forms, history, response

clientVars == <<forms, history, response>>

withdrawalVars == <<withdrawals, nextWithdrawalId>>

ledgerVars == <<projects, deductions, currencySettings, timeEntries,
                nextProjectId, nextEntryId, withdrawalVars>>

\* column defaults of the deductions and currency_settings tables
DefaultServiceFee == 10
DefaultTds == Fin(1, 10)
DefaultGst == 18
DefaultTransferFee == Fin(99, 100)
DefaultUsdToInr == 84

\* a key a Partial<...> body leaves out
Absent == [k |-> "absent", n |-> 0, d |-> 1]

\* request values: the schemas accept any number; these are the ones drawn
Rates == {Int2Num(25)}
ProjectTypes == {"hourly", "fixed"}
HoursValues == {Int2Num(-1), Fin(11, 6)}
ManualAmounts == {NaN, Int2Num(0), Int2Num(50)}
ServiceFees == {Int2Num(DefaultServiceFee), Int2Num(100)}
TdsRates == {DefaultTds}
GstRates == {Int2Num(DefaultGst)}
TransferFees == {DefaultTransferFee}
ExchangeRates == {Int2Num(DefaultUsdToInr), Int2Num(90)}

\* bodies of PATCH /api/deductions: no key, one key, or all four
DeductionPatches ==
  {b \in [serviceFee : ServiceFees \cup {Absent}, tds : TdsRates \cup {Absent},
          gst : GstRates \cup {Absent}, transferFee : TransferFees \cup {Absent}] :
     Cardinality({f \in {"serviceFee", "tds", "gst", "transferFee"} : b[f] # Absent})
       \in {0, 1, 4}}

OrElse(x, dflt) == IF x = Absent THEN dflt ELSE x

ProjectIds == 1..MaxProjects

\* getProject(id): the set holding the row, empty when there is none
getProject(id) == {p \in projects : p.id = id}

\* getDeductions() / getCurrencySettings(): select ... limit 1
getDeductions == IF deductions = <<>> THEN <<>> ELSE <<deductions[1]>>
getCurrencySettings ==
  IF currencySettings = <<>> THEN <<>> ELSE <<currencySettings[1]>>

LedgerInit ==
  /\ projects = {}
  /\ deductions = <<>>
  /\ currencySettings = <<>>
  /\ timeEntries = {}
  /\ nextProjectId = 1
  /\ nextEntryId = 1
  /\ withdrawals = {}
  /\ nextWithdrawalId = 1
  /\ calls = NoCalls
  /\ ColdStart
  /\ migration = NotMigrated

\* POST /api/projects -> storage.createProject
CreateProject ==
  /\ nextProjectId <= MaxProjects
  /\ \E rate \in Rates, type \in ProjectTypes :
       projects' = projects \cup {[id |-> nextProjectId, rate |-> rate, type |-> type]}
  /\ nextProjectId' = nextProjectId + 1
  /\ UNCHANGED <<deductions, currencySettings, timeEntries, nextEntryId, withdrawalVars, parserVars, calls, instanceVars, migration, clientVars>>

\* PATCH /api/projects/:id -> storage.updateProject
UpdateProject ==
  /\ \E p \in projects, rate \in Rates \cup {Absent}, type \in ProjectTypes \cup {"absent"} :
       projects' = (projects \ {p}) \cup
                     {[id |-> p.id,
                       rate |-> OrElse(rate, p.rate),
                       type |-> IF type = "absent" THEN p.type ELSE type]}
  /\ UNCHANGED <<deductions, currencySettings, timeEntries, nextProjectId, nextEntryId, withdrawalVars, parserVars, calls, instanceVars, migration, clientVars>>

\* deleting the project row alone, as without the foreign key's cascade
DeleteProjectOnly ==
  /\ \E p \in projects : projects' = projects \ {p}
  /\ UNCHANGED <<deductions, currencySettings, timeEntries, nextProjectId, nextEntryId, withdrawalVars, parserVars, calls, instanceVars, migration, clientVars>>

\* DELETE /api/projects/:id -> storage.deleteProject; time_entries.project_id
\* is declared references(projects.id, onDelete: cascade)
DeleteProject ==
  /\ \E p \in projects :
       /\ projects' = projects \ {p}
       /\ timeEntries' = {e \in timeEntries : e.projectId # p.id}
  /\ UNCHANGED <<deductions, currencySettings, nextProjectId, nextEntryId, withdrawalVars, parserVars, calls, instanceVars, migration, clientVars>>

\* every call inserting a further row
updateDeductionsInsert(data) ==
  deductions' =
    Append(deductions,
       [id |-> Len(deductions) + 1,
        serviceFee |-> OrElse(data.serviceFee, Int2Num(DefaultServiceFee)),
        tds |-> OrElse(data.tds, DefaultTds),
        gst |-> OrElse(data.gst, Int2Num(DefaultGst)),
        transferFee |-> OrElse(data.transferFee, DefaultTransferFee)])

\* storage.updateDeductions(data): update the row read by getDeductions,
\* insert one (column defaults for absent keys) when there is none
updateDeductions(data) ==
  LET existing == getDeductions
      serviceFee == data.serviceFee
      tds == data.tds
      gst == data.gst
      transferFee == data.transferFee
  IN  IF existing # <<>>
      THEN deductions' =
             [deductions EXCEPT ![1] =
                [id |-> existing[1].id,
                 serviceFee |-> OrElse(serviceFee, existing[1].serviceFee),
                 tds |-> OrElse(tds, existing[1].tds),
                 gst |-> OrElse(gst, existing[1].gst),
                 transferFee |-> OrElse(transferFee, existing[1].transferFee)]]
      ELSE deductions' =
             Append(deductions,
                [id |-> Len(deductions) + 1,
                 serviceFee |-> OrElse(serviceFee, Int2Num(DefaultServiceFee)),
                 tds |-> OrElse(tds, DefaultTds),
                 gst |-> OrElse(gst, Int2Num(DefaultGst)),
                 transferFee |-> OrElse(transferFee, DefaultTransferFee)])

\* PATCH /api/deductions -> storage.updateDeductions
UpdateDeductions ==
  /\ \E body \in DeductionPatches : updateDeductions(body)
  /\ UNCHANGED <<projects, currencySettings, timeEntries, nextProjectId, nextEntryId, withdrawalVars, parserVars, calls, instanceVars, migration, clientVars>>

\* bodies of PATCH /api/currency
CurrencyPatches == [usdToInr : ExchangeRates \cup {Absent}]

\* storage.updateCurrencySettings(data)
updateCurrencySettings(data) ==
  LET existing == getCurrencySettings
      usdToInr == data.usdToInr
  IN  IF existing # <<>>
      THEN currencySettings' =
             [currencySettings EXCEPT ![1] =
                [id |-> existing[1].id,
                 usdToInr |-> OrElse(usdToInr, existing[1].usdToInr)]]
      ELSE currencySettings' =
             Append(currencySettings,
                [id |-> Len(currencySettings) + 1,
                 usdToInr |-> OrElse(usdToInr, Int2Num(DefaultUsdToInr))])

\* an update that also re-prices the stored entries at the new rate
UpdateCurrencySettingsRetroactive ==
  /\ \E body \in CurrencyPatches :
       /\ updateCurrencySettings(body)
       /\ timeEntries' =
            {[e EXCEPT !.exchangeRate = OrElse(body.usdToInr, e.exchangeRate),
                       !.netInr = Mul(e.netUsd, OrElse(body.usdToInr, e.exchangeRate))] :
               e \in timeEntries}
  /\ UNCHANGED <<projects, deductions, nextProjectId, nextEntryId, withdrawalVars, parserVars, calls, instanceVars, migration, clientVars>>

\* PATCH /api/currency -> storage.updateCurrencySettings
UpdateCurrencySettings ==
  /\ \E body \in CurrencyPatches : updateCurrencySettings(body)
  /\ UNCHANGED <<projects, deductions, timeEntries, nextProjectId, nextEntryId, withdrawalVars, parserVars, calls, instanceVars, migration, clientVars>>

Hundred == Int2Num(100)

\* an earlier rule: GST on what is left of gross after service fee and TDS
GstOnNetOfFees(grossUsd, deductionService, deductionTds, gstPercent) ==
  Mul(Sub(Sub(grossUsd, deductionService), deductionTds), Div(gstPercent, Hundred))

\* deductionGst = deductionService * (gstPercent / 100)
GstAmount(grossUsd, deductionService, deductionTds, gstPercent) ==
  Mul(deductionService, Div(gstPercent, Hundred))

\* x || dflt on a number: NaN and 0 are falsy
OrNum(x, dflt) == IF x.k = "nan" \/ (x.k = "fin" /\ x.n = 0) THEN dflt ELSE x

\* the snapshot computed by POST /api/entries of the current routes
\* (deductionTotal leaves the transfer fee out)
ComputeEntry(project, ded, cur, hours, manualGrossAmount) ==
  LET rate == project.rate
      grossUsd == IF project.type = "fixed"
                  THEN OrNum(manualGrossAmount, rate)
                  ELSE Mul(hours, rate)
      serviceFeePercent == OrZero(ded.serviceFee)
      tdsPercent == OrZero(ded.tds)
      gstPercent == OrZero(ded.gst)
      transferFee == OrZero(ded.transferFee)
      deductionService == Mul(grossUsd, Div(serviceFeePercent, Hundred))
      deductionTds == Mul(grossUsd, Div(tdsPercent, Hundred))
      deductionGst == GstAmount(grossUsd, deductionService, deductionTds, gstPercent)
      deductionTransfer == transferFee
      deductionTotal == Add(Add(deductionService, deductionTds), deductionGst)
      netUsd == MathMax(Int2Num(0), Sub(grossUsd, deductionTotal))
      exchangeRate == OrZero(cur.usdToInr)
      netInr == Mul(netUsd, exchangeRate)
  IN  [projectId |-> project.id, hours |-> hours,
       grossUsd |-> grossUsd,
       deductionService |-> deductionService,
       deductionGst |-> deductionGst,
       deductionTds |-> deductionTds,
       deductionTransfer |-> deductionTransfer,
       deductionTotal |-> deductionTotal,
       netUsd |-> netUsd,
       netInr |-> netInr,
       exchangeRate |-> exchangeRate]

\* the snapshot computed by POST /api/entries of the session-auth routes
\* (hourly only; the transfer fee is part of the total and of the net)
ComputeEntryAuth(project, ded, cur, hoursIn) ==
  LET hours == OrZero(hoursIn)
      rate == OrZero(project.rate)
      grossUsd == Mul(hours, rate)
      serviceFeePercent == OrZero(ded.serviceFee)
      serviceAmt == Mul(grossUsd, Div(serviceFeePercent, Hundred))
      tdsPercent == OrZero(ded.tds)
      tdsAmt == Mul(grossUsd, Div(tdsPercent, Hundred))
      gstPercent == OrZero(ded.gst)
      gstAmt == GstAmount(grossUsd, serviceAmt, tdsAmt, gstPercent)
      transferAmt == OrZero(ded.transferFee)
      netBeforeTransfer == Sub(Sub(Sub(grossUsd, serviceAmt), tdsAmt), gstAmt)
      netUsd == MathMax(Int2Num(0), Sub(netBeforeTransfer, transferAmt))
      totalDeductions == Add(Add(Add(serviceAmt, tdsAmt), gstAmt), transferAmt)
      exchangeRate == OrZero(cur.usdToInr)
      netInr == Mul(netUsd, exchangeRate)
  IN  [projectId |-> project.id, hours |-> hoursIn,
       grossUsd |-> grossUsd,
       deductionService |-> serviceAmt,
       deductionGst |-> gstAmt,
       deductionTds |-> tdsAmt,
       deductionTransfer |-> transferAmt,
       deductionTotal |-> totalDeductions,
       netUsd |-> netUsd,
       netInr |-> netInr,
       exchangeRate |-> exchangeRate]

\* storage.createTimeEntry: insert the row under a fresh id
createTimeEntry(entry) ==
  /\ timeEntries' = timeEntries \cup {[id |-> nextEntryId] @@ entry}
  /\ nextEntryId' = nextEntryId + 1

\* the handler of POST /api/entries (storage.ts 507-583) on one request
\* body: 404 without the project, 500 without a configuration row,
\* otherwise one insert
PostEntriesHandler(projectId, hours, manual) ==
  /\ getProject(projectId) # {}
  /\ getDeductions # <<>> /\ getCurrencySettings # <<>>
  /\ LET project == CHOOSE p \in getProject(projectId) : TRUE
     IN  createTimeEntry(ComputeEntry(project, getDeductions[1],
                                      getCurrencySettings[1], hours, manual))

\* POST /api/entries sent by any client of the API
PostEntries ==
  /\ nextEntryId <= MaxEntries
  /\ \E projectId \in ProjectIds, hours \in HoursValues, manual \in ManualAmounts :
       PostEntriesHandler(projectId, hours, manual)
  /\ UNCHANGED <<projects, deductions, currencySettings, nextProjectId, withdrawalVars, parserVars, calls, instanceVars, migration, clientVars>>

\* POST /api/entries (routes.ts 335-399)
PostEntriesAuth ==
  /\ nextEntryId <= MaxEntries
  /\ \E projectId \in ProjectIds, hours \in HoursValues :
       /\ getProject(projectId) # {}
       /\ getDeductions # <<>> /\ getCurrencySettings # <<>>
       /\ LET project == CHOOSE p \in getProject(projectId) : TRUE
          IN  createTimeEntry(ComputeEntryAuth(project, getDeductions[1],
                                               getCurrencySettings[1], hours))
  /\ UNCHANGED <<projects, deductions, currencySettings, nextProjectId, withdrawalVars, parserVars, calls, instanceVars, migration, clientVars>>

\* DELETE /api/entries/:id -> storage.deleteTimeEntry
DeleteEntry ==
  /\ \E e \in timeEntries : timeEntries' = timeEntries \ {e}
  /\ UNCHANGED <<projects, deductions, currencySettings, nextProjectId, nextEntryId, withdrawalVars, parserVars, calls, instanceVars, migration, clientVars>>

(***************************************************************************)
(* Withdrawals (routes of storage.ts 597-651)                              *)
(***************************************************************************)
DefaultTransactionFee == Fin(99, 100)
Cent == Fin(1, 100)

PaymentStatuses == {"pending", "received"}

\* bodies of POST /api/withdrawals sent by a client of the API other than
\* the withdrawal page: 20 with the fee not taken off withdrawalAmount
WithdrawalBodies ==
  {[netEarnings |-> Int2Num(20), transactionFee |-> DefaultTransactionFee,
    withdrawalAmount |-> Int2Num(20), paymentStatus |-> "pending"]}

\* storage.createWithdrawal: insert the row under a fresh id
createWithdrawal(body) ==
  /\ withdrawals' = withdrawals \cup {[id |-> nextWithdrawalId] @@ body}
  /\ nextWithdrawalId' = nextWithdrawalId + 1

\* storage.updateWithdrawalStatus: set payment_status of the row
updateWithdrawalStatus(w, paymentStatus) ==
  withdrawals' = (withdrawals \ {w}) \cup {[w EXCEPT !.paymentStatus = paymentStatus]}

\* storage.deleteWithdrawal
deleteWithdrawal(w) == withdrawals' = withdrawals \ {w}

\* POST /api/withdrawals
PostWithdrawals ==
  /\ nextWithdrawalId <= MaxWithdrawals
  /\ \E body \in WithdrawalBodies : createWithdrawal(body)
  /\ UNCHANGED <<projects, deductions, currencySettings, timeEntries,
                 nextProjectId, nextEntryId, parserVars, calls, instanceVars, migration, clientVars>>

\* req.body.paymentStatus of PATCH /api/withdrawals/:id: the two statuses,
\* another string, and the empty string for a body without one
PatchStatuses == PaymentStatuses \cup {"cancelled", ""}

\* PATCH /api/withdrawals/:id for a stored row: 400 without a payment
\* status, else storage.updateWithdrawalStatus(id, paymentStatus)
PatchWithdrawal ==
  /\ \E w \in withdrawals, paymentStatus \in PatchStatuses :
       IF paymentStatus = ""
       THEN withdrawals' = withdrawals
       ELSE updateWithdrawalStatus(w, paymentStatus)
  /\ UNCHANGED <<projects, deductions, currencySettings, timeEntries,
                 nextProjectId, nextEntryId, nextWithdrawalId, parserVars, calls, instanceVars, migration, clientVars>>

\* DELETE /api/withdrawals/:id
DeleteWithdrawal ==
  /\ \E w \in withdrawals : deleteWithdrawal(w)
  /\ UNCHANGED <<projects, deductions, currencySettings, timeEntries,
                 nextProjectId, nextEntryId, nextWithdrawalId, parserVars, calls, instanceVars, migration, clientVars>>

\* no request has been answered yet
NoResponse == 0

\* no page is open
ClientIdle ==
  /\ forms = <<>>
  /\ history = <<>>
  /\ response = NoResponse

(***************************************************************************)
(* Parser state: one call of parseTimeInput on a drawn input               *)
(***************************************************************************)
NotParsed ==
  [status |-> "none", minutes |-> NaN, hadOverflow |-> FALSE,
   format |-> "hm", usedLegacyFractional |-> FALSE, source |-> StrInput(<<>>)]

\* what shouldInferLegacy answered inside useLegacy, "unset" when the
\* short-circuit of || and && never reached it
Consulted(v, o) ==
  IF o.format = "unset" /\ o.allowLegacyInference # "false"
  THEN (IF shouldInferLegacy(v) THEN "legacy" ELSE "hm")
  ELSE "unset"

ParserIdle ==
  /\ value = StrInput(<<>>)
  /\ opts = [format |-> "unset", allowLegacyInference |-> "unset"]
  /\ parsed = NotParsed
  /\ inferred = "unset"
  /\ parserPc = "idle"

ParserInit ==
  /\ LedgerInit
  /\ value \in Inputs
  /\ opts \in Options
  /\ parsed = NotParsed
  /\ inferred = "unset"
  /\ parserPc = "ready"
  /\ ClientIdle

\* parseTimeInput(value, opts) returns a ParsedTime
ParseReturns ==
  /\ parserPc = "ready"
  /\ parseTimeInput(value, opts).status = "ok"
  /\ parsed' = parseTimeInput(value, opts)
  /\ inferred' = Consulted(value, opts)
  /\ parserPc' = "returned"
  /\ UNCHANGED <<value, opts>>
  /\ UNCHANGED <<ledgerVars, clientVars, calls, instanceVars, migration>>

\* parseTimeInput(value, opts) throws Error("Invalid time input")
ParseThrows ==
  /\ parserPc = "ready"
  /\ parseTimeInput(value, opts).status = "error"
  /\ parsed' = parseTimeInput(value, opts)
  /\ inferred' = Consulted(value, opts)
  /\ parserPc' = "threw"
  /\ UNCHANGED <<value, opts>>
  /\ UNCHANGED <<ledgerVars, clientVars, calls, instanceVars, migration>>

ParserNext == ParseReturns \/ ParseThrows

vars == <<ledgerVars, parserVars, clientVars, calls, instanceVars, migration>>

ParserSpec == ParserInit /\ [][ParserNext]_vars

(***************************************************************************)
(* The server over the ledger                                              *)
(***************************************************************************)
Init == LedgerInit /\ ParserIdle /\ ClientIdle

Next ==
  \/ CreateProject
  \/ UpdateProject
  \/ DeleteProject
  \/ UpdateDeductions
  \/ UpdateCurrencySettings
  \/ PostEntries
  \/ PostEntriesAuth
  \/ DeleteEntry

Spec == Init /\ [][Next]_vars

(***************************************************************************)
(* The server once a project and both configuration rows exist, with the   *)
(* withdrawal routes                                                       *)
(***************************************************************************)
\* the rows PATCH /api/deductions and PATCH /api/currency insert for {}
DefaultDeductionsRow ==
  [id |-> 1, serviceFee |-> Int2Num(DefaultServiceFee), tds |-> DefaultTds,
   gst |-> Int2Num(DefaultGst), transferFee |-> DefaultTransferFee]

DefaultCurrencyRow == [id |-> 1, usdToInr |-> Int2Num(DefaultUsdToInr)]

ConfiguredInit ==
  /\ \E type \in ProjectTypes :
       projects = {[id |-> 1, rate |-> Int2Num(50), type |-> type]}
  /\ deductions = <<DefaultDeductionsRow>>
  /\ currencySettings = <<DefaultCurrencyRow>>
  /\ timeEntries = {}
  /\ nextProjectId = 2
  /\ nextEntryId = 1
  /\ withdrawals = {}
  /\ nextWithdrawalId = 1
  /\ calls = NoCalls
  /\ ColdStart
  /\ migration = NotMigrated
  /\ ParserIdle
  /\ ClientIdle

ConfiguredNext ==
  \/ UpdateProject
  \/ UpdateDeductions
  \/ UpdateCurrencySettings
  \/ PostEntries
  \/ DeleteEntry
  \/ PostWithdrawals
  \/ PatchWithdrawal
  \/ DeleteWithdrawal

ConfiguredSpec == ConfiguredInit /\ [][ConfiguredNext]_vars

(***************************************************************************)
(* The entry form (client/src/components/entry-form.tsx) open in two       *)
(* browser sessions on a fixed project                                     *)
(***************************************************************************)
Sessions == {"a", "b"}

\* amounts typed into the milestone field: the default 0, and two amounts
FormAmounts == {Int2Num(0), Int2Num(30), Fin(2002, 100)}

\* a number used as a condition
Truthy(x) == ~(x.k = "nan" \/ (x.k = "fin" /\ x.n = 0))

\* a > b
Gt(a, b) == Geq(a, b) /\ a # b

\* entries.reduce((sum, e) => sum + (e.grossUsd || 0), 0)
RECURSIVE reduceGross(_)
reduceGross(entries) ==
  IF entries = {} THEN Int2Num(0)
  ELSE LET e == CHOOSE x \in entries : TRUE
       IN  Add(OrZero(e.grossUsd), reduceGross(entries \ {e}))

\* the sum taken over the whole list
paidAmountOfAll(project, entries) == reduceGross(entries)

\* projectEntries = entries.filter(e => e.projectId === project.id), summed
paidAmount(project, entries) ==
  reduceGross({e \in entries : e.projectId = project.id})

\* remaining = Math.max(0, project.rate - paidAmount)
remainingBudget(project, entries) ==
  MathMax(Int2Num(0), Sub(project.rate, paidAmount(project, entries)))

FixedProject == [id |-> 1, rate |-> Int2Num(50), type |-> "fixed"]
HourlyProject == [id |-> 2, rate |-> Int2Num(25), type |-> "hourly"]

\* 110 minutes logged on the hourly project
LoggedEntry ==
  [id |-> 1] @@ ComputeEntry(HourlyProject, DefaultDeductionsRow,
                             DefaultCurrencyRow, Fin(11, 6), NaN)

NoToast == [title |-> "none", remaining |-> Int2Num(0)]

\* the form as mounted: the fixed project selected, the fields at their
\* default values, the entries list as fetched
FormMounted ==
  [projectId |-> FixedProject.id,
   hours |-> NumInput("fin", FALSE, 0, 0),
   amount |-> Int2Num(0),
   entries |-> {LoggedEntry},
   remainingBudget |-> remainingBudget(FixedProject, {LoggedEntry}),
   pc |-> "idle",
   toast |-> NoToast]

FormInit ==
  /\ projects = {FixedProject, HourlyProject}
  /\ deductions = <<DefaultDeductionsRow>>
  /\ currencySettings = <<DefaultCurrencyRow>>
  /\ timeEntries = {LoggedEntry}
  /\ nextProjectId = 3
  /\ nextEntryId = 2
  /\ withdrawals = {}
  /\ nextWithdrawalId = 1
  /\ calls = NoCalls
  /\ ColdStart
  /\ migration = NotMigrated
  /\ ParserIdle
  /\ forms = [s \in Sessions |-> FormMounted]
  /\ history = <<>>
  /\ response = NoResponse

\* projects.find(p => p.id === id) on the projects the form holds
findProject(id) == getProject(id)

\* the user types an amount
TypeAmount ==
  /\ \E s \in Sessions, amount \in FormAmounts :
       /\ forms[s].pc = "idle"
       /\ forms[s].amount # amount
       /\ forms' = [forms EXCEPT ![s].amount = amount]
  /\ UNCHANGED <<ledgerVars, parserVars, calls, instanceVars, migration, history, response>>

\* useTimeEntries delivers the current list; the effect recomputes the
\* remaining budget
RefetchEntries ==
  /\ \E s \in Sessions :
       /\ forms[s].entries # timeEntries
       /\ findProject(forms[s].projectId) # {}
       /\ LET project == CHOOSE p \in findProject(forms[s].projectId) : TRUE
          IN  forms' = [forms EXCEPT
                          ![s].entries = timeEntries,
                          ![s].remainingBudget =
                             IF project.type = "fixed"
                             THEN remainingBudget(project, timeEntries)
                             ELSE forms[s].remainingBudget]
  /\ UNCHANGED <<ledgerVars, parserVars, calls, instanceVars, migration, history, response>>

\* a submission sent on without the budget validation
onSubmitUnchecked(s) ==
  /\ forms[s].pc = "idle"
  /\ forms' = [forms EXCEPT ![s].pc = "posting"]

\* onSubmit(values) up to the request: no project, nothing happens; a fixed
\* project and a truthy amount above the remaining budget, the Budget
\* Exceeded toast; an hourly project and unparsable hours, the Invalid time
\* toast; otherwise createEntry.mutateAsync is under way
onSubmit(s) ==
  /\ forms[s].pc = "idle"
  /\ LET values == forms[s]
         found == findProject(values.projectId)
     IN  IF found = {} THEN forms' = forms
         ELSE LET project == CHOOSE p \in found : TRUE
                  isFixed == project.type = "fixed"
                  remaining == remainingBudget(project, values.entries)
              IN  IF isFixed /\ Truthy(values.amount) /\ Gt(values.amount, remaining)
                  THEN forms' = [forms EXCEPT
                                   ![s].toast = [title |-> "Budget Exceeded",
                                                 remaining |-> remaining]]
                  ELSE IF ~isFixed
                          /\ parseTimeInput(values.hours,
                                            [format |-> "hm",
                                             allowLegacyInference |-> "unset"]).status
                               = "error"
                       THEN forms' = [forms EXCEPT
                                        ![s].toast = [title |-> "Invalid time",
                                                      remaining |-> Int2Num(0)]]
                       ELSE forms' = [forms EXCEPT ![s].pc = "posting"]

SubmitForm ==
  /\ \E s \in Sessions : onSubmit(s)
  /\ UNCHANGED <<ledgerVars, parserVars, calls, instanceVars, migration, history, response>>

\* the request body of createEntry.mutateAsync, as the handler reads it:
\* minutes is 0 for a fixed project, manualGrossAmount is left out for an
\* hourly one
requestHours(s, isFixed) ==
  IF isFixed THEN minutesToHoursDecimal(Int2Num(0))
  ELSE minutesToHoursDecimal(
         parseTimeInput(forms[s].hours,
                        [format |-> "hm", allowLegacyInference |-> "unset"]).minutes)

requestAmount(s, isFixed) == IF isFixed THEN forms[s].amount ELSE NaN

\* a request that is validated once more when it arrives, against the
\* entries then stored, and dropped when it would overspend
createEntryRevalidated(s) ==
  /\ forms[s].pc = "posting"
  /\ nextEntryId <= MaxMilestones + 1
  /\ LET project == CHOOSE p \in findProject(forms[s].projectId) : TRUE
         isFixed == project.type = "fixed"
     IN  IF isFixed /\ Gt(forms[s].amount, remainingBudget(project, timeEntries))
         THEN UNCHANGED <<timeEntries, nextEntryId>>
         ELSE PostEntriesHandler(forms[s].projectId, requestHours(s, isFixed),
                                 requestAmount(s, isFixed))
  /\ forms' = [forms EXCEPT ![s].pc = "idle", ![s].amount = Int2Num(0)]

\* createEntry.mutateAsync completes: POST /api/entries is handled, then
\* the Milestone Submitted / Entry Added toast and form.reset
createEntry(s) ==
  /\ forms[s].pc = "posting"
  /\ nextEntryId <= MaxMilestones + 1
  /\ LET project == CHOOSE p \in findProject(forms[s].projectId) : TRUE
         isFixed == project.type = "fixed"
     IN  /\ PostEntriesHandler(forms[s].projectId, requestHours(s, isFixed),
                               requestAmount(s, isFixed))
         /\ forms' = [forms EXCEPT
                        ![s].pc = "idle",
                        ![s].amount = Int2Num(0),
                        ![s].toast =
                           [title |-> IF isFixed THEN "Milestone Submitted"
                                      ELSE "Entry Added",
                            remaining |-> Int2Num(0)]]

CreateEntry ==
  /\ \E s \in Sessions : createEntry(s)
  /\ UNCHANGED <<projects, deductions, currencySettings, nextProjectId,
                 withdrawalVars, parserVars, calls, instanceVars, migration, history, response>>

FormNext ==
  \/ TypeAmount
  \/ RefetchEntries
  \/ SubmitForm
  \/ CreateEntry

FormSpec == FormInit /\ [][FormNext]_vars

(***************************************************************************)
(* The withdrawal page (client/src/pages/history.tsx) in one browser       *)
(* session                                                                 *)
(***************************************************************************)
\* amounts typed into the net earnings field (the schema wants >= 0.01)
WithdrawalAmounts == {Cent, Int2Num(20), Fin(44055, 1000)}

\* a milestone of 50 stored for the fixed project: netUsd is 44.05
MilestoneEntry ==
  [id |-> 1] @@ ComputeEntry(FixedProject, DefaultDeductionsRow,
                             DefaultCurrencyRow, Int2Num(0), Int2Num(50))

\* timeEntries.reduce((sum, entry) => sum + (entry.netUsd || 0), 0)
RECURSIVE totalEarnings(_)
totalEarnings(entries) ==
  IF entries = {} THEN Int2Num(0)
  ELSE LET entry == CHOOSE x \in entries : TRUE
       IN  Add(OrZero(entry.netUsd), totalEarnings(entries \ {entry}))

\* withdrawals.reduce((sum, w) => sum + (w.netEarnings || 0), 0)
RECURSIVE totalWithdrawn(_)
totalWithdrawn(ws) ==
  IF ws = {} THEN Int2Num(0)
  ELSE LET withdrawal == CHOOSE x \in ws : TRUE
       IN  Add(OrZero(withdrawal.netEarnings), totalWithdrawn(ws \ {withdrawal}))

\* the difference taken as it comes
availableBalanceUnclamped(entries, ws) ==
  Sub(totalEarnings(entries), totalWithdrawn(ws))

\* availableBalance = Math.max(0, totalEarnings - totalWithdrawn)
availableBalance(entries, ws) ==
  MathMax(Int2Num(0), Sub(totalEarnings(entries), totalWithdrawn(ws)))

\* useState<string | null>(null): no withdrawal id
NoId == 0

\* the page as mounted: both lists as fetched, the form at its defaults
HistoryMounted ==
  [timeEntries |-> {MilestoneEntry},
   withdrawals |-> {},
   netEarnings |-> Int2Num(0),
   transactionFee |-> DefaultTransactionFee,
   pc |-> "idle",
   toast |-> NoToast,
   confirmStatusId |-> NoId,
   confirmStatusValue |-> "null",
   selectedIds |-> {}]

HistoryInit ==
  /\ projects = {FixedProject}
  /\ deductions = <<DefaultDeductionsRow>>
  /\ currencySettings = <<DefaultCurrencyRow>>
  /\ timeEntries = {MilestoneEntry}
  /\ nextProjectId = 2
  /\ nextEntryId = 2
  /\ withdrawals = {}
  /\ nextWithdrawalId = 1
  /\ calls = NoCalls
  /\ ColdStart
  /\ migration = NotMigrated
  /\ ParserIdle
  /\ forms = <<>>
  /\ response = NoResponse
  /\ history = HistoryMounted

\* the user types the net earnings to withdraw
TypeNetEarnings ==
  /\ history.pc = "idle"
  /\ \E netEarnings \in WithdrawalAmounts :
       /\ history.netEarnings # netEarnings
       /\ history' = [history EXCEPT !.netEarnings = netEarnings]
  /\ UNCHANGED <<ledgerVars, parserVars, calls, instanceVars, migration, forms, response>>

\* useTimeEntries delivers the current list
RefetchTimeEntries ==
  /\ history.timeEntries # timeEntries
  /\ history' = [history EXCEPT !.timeEntries = timeEntries]
  /\ UNCHANGED <<ledgerVars, parserVars, calls, instanceVars, migration, forms, response>>

\* useWithdrawals delivers the current list
RefetchWithdrawals ==
  /\ history.withdrawals # withdrawals
  /\ history' = [history EXCEPT !.withdrawals = withdrawals]
  /\ UNCHANGED <<ledgerVars, parserVars, calls, instanceVars, migration, forms, response>>

\* History.onSubmit(values) up to the request: more than the available
\* balance plus 0.01, the Insufficient Funds toast; otherwise
\* createWithdrawal.mutateAsync is under way
historyOnSubmit ==
  /\ history.pc = "idle"
  /\ Truthy(history.netEarnings)
  /\ LET values == history
         available == availableBalance(history.timeEntries, history.withdrawals)
     IN  IF Gt(values.netEarnings, Add(available, Cent))
         THEN history' = [history EXCEPT
                            !.toast = [title |-> "Insufficient Funds",
                                       remaining |-> available]]
         ELSE history' = [history EXCEPT !.pc = "posting"]

SubmitWithdrawal ==
  /\ historyOnSubmit
  /\ UNCHANGED <<ledgerVars, parserVars, calls, instanceVars, migration, forms, response>>

\* createWithdrawal.mutateAsync completes: POST /api/withdrawals is handled,
\* then the Withdrawal Created toast and form.reset
CreateWithdrawal ==
  /\ history.pc = "posting"
  /\ nextWithdrawalId <= MaxPayouts
  /\ LET values == history
         withdrawalAmount == Sub(values.netEarnings, values.transactionFee)
     IN  createWithdrawal([netEarnings |-> values.netEarnings,
                           transactionFee |-> values.transactionFee,
                           withdrawalAmount |-> withdrawalAmount,
                           paymentStatus |-> "pending"])
  /\ history' = [history EXCEPT
                   !.pc = "idle",
                   !.netEarnings = Int2Num(0),
                   !.toast = [title |-> "Withdrawal Created",
                              remaining |-> Int2Num(0)]]
  /\ UNCHANGED <<projects, deductions, currencySettings, timeEntries,
                 nextProjectId, nextEntryId, parserVars, calls, instanceVars, migration, forms, response>>

\* handleStatusUpdate(id, currentStatus) of a listed row opens the dialog
HandleStatusUpdate ==
  /\ history.confirmStatusId = NoId
  /\ \E withdrawal \in history.withdrawals :
       history' = [history EXCEPT !.confirmStatusId = withdrawal.id,
                                  !.confirmStatusValue = withdrawal.paymentStatus]
  /\ UNCHANGED <<ledgerVars, parserVars, calls, instanceVars, migration, forms, response>>

\* the dialog is dismissed: onOpenChange clears the id only
CancelStatusChange ==
  /\ history.confirmStatusId # NoId
  /\ history' = [history EXCEPT !.confirmStatusId = NoId]
  /\ UNCHANGED <<ledgerVars, parserVars, calls, instanceVars, migration, forms, response>>

\* a status toast
StatusToast(title) == [title |-> title, remaining |-> Int2Num(0)]

\* const newStatus = confirmStatusValue === "pending" ? "received" : "pending"
newStatus(confirmStatusValue) ==
  IF confirmStatusValue = "pending" THEN "received" ELSE "pending"

\* confirmStatusChange: PATCH /api/withdrawals/:id with the other status;
\* a row that is gone answers 404 and the Error toast is shown
confirmStatusChange ==
  /\ history.confirmStatusId # NoId
  /\ history.confirmStatusValue # "null"
  /\ LET stored == {w \in withdrawals : w.id = history.confirmStatusId}
     IN  IF stored # {}
         THEN /\ updateWithdrawalStatus(CHOOSE w \in stored : TRUE,
                                         newStatus(history.confirmStatusValue))
              /\ history' = [history EXCEPT !.toast = StatusToast("Status Updated"),
                                            !.confirmStatusId = NoId,
                                            !.confirmStatusValue = "null"]
         ELSE /\ withdrawals' = withdrawals
              /\ history' = [history EXCEPT !.toast = StatusToast("Error"),
                                            !.confirmStatusId = NoId]

ConfirmStatusChange ==
  /\ confirmStatusChange
  /\ UNCHANGED <<projects, deductions, currencySettings, timeEntries,
                 nextProjectId, nextEntryId, nextWithdrawalId, parserVars, calls, instanceVars, migration, forms, response>>

\* a row's checkbox is ticked or cleared
ToggleSelected ==
  /\ \E withdrawal \in history.withdrawals :
       history' = [history EXCEPT !.selectedIds =
                     IF withdrawal.id \in @ THEN @ \ {withdrawal.id}
                                             ELSE @ \cup {withdrawal.id}]
  /\ UNCHANGED <<ledgerVars, parserVars, calls, instanceVars, migration, forms, response>>

\* handleBulkStatusUpdate(newStatus): one PATCH per selected id; a row that
\* is gone answers 404, which rejects Promise.all after the others are written
handleBulkStatusUpdate(status) ==
  /\ history.selectedIds # {}
  /\ withdrawals' =
       {IF w.id \in history.selectedIds THEN [w EXCEPT !.paymentStatus = status] ELSE w :
          w \in withdrawals}
  /\ IF history.selectedIds \subseteq {w.id : w \in withdrawals}
     THEN history' = [history EXCEPT !.toast = StatusToast("Status Updated"),
                                     !.selectedIds = {}]
     ELSE history' = [history EXCEPT !.toast = StatusToast("Error")]

\* the two buttons: Mark as Received, Mark as Pending
HandleBulkStatusUpdate ==
  /\ \E status \in {"received", "pending"} : handleBulkStatusUpdate(status)
  /\ UNCHANGED <<projects, deductions, currencySettings, timeEntries,
                 nextProjectId, nextEntryId, nextWithdrawalId, parserVars, calls, instanceVars, migration, forms, response>>

HistoryNext ==
  \/ TypeNetEarnings
  \/ RefetchTimeEntries
  \/ RefetchWithdrawals
  \/ SubmitWithdrawal
  \/ CreateWithdrawal
  \/ DeleteWithdrawal
  \/ DeleteEntry
  \/ DeleteProject

HistorySpec == HistoryInit /\ [][HistoryNext]_vars

(***************************************************************************)
(* The payment status of withdrawals: the page next to other clients of    *)
(* PATCH and DELETE /api/withdrawals/:id.  One withdrawal of 20 was        *)
(* recorded through the page earlier; the form holds 20 again.             *)
(***************************************************************************)
RecordedWithdrawal ==
  [id |-> 1, netEarnings |-> Int2Num(20), transactionFee |-> DefaultTransactionFee,
   withdrawalAmount |-> Sub(Int2Num(20), DefaultTransactionFee),
   paymentStatus |-> "pending"]

StatusInit ==
  /\ projects = {FixedProject}
  /\ deductions = <<DefaultDeductionsRow>>
  /\ currencySettings = <<DefaultCurrencyRow>>
  /\ timeEntries = {MilestoneEntry}
  /\ nextProjectId = 2
  /\ nextEntryId = 2
  /\ withdrawals = {RecordedWithdrawal}
  /\ nextWithdrawalId = 2
  /\ calls = NoCalls
  /\ ColdStart
  /\ migration = NotMigrated
  /\ ParserIdle
  /\ forms = <<>>
  /\ response = NoResponse
  /\ history = [HistoryMounted EXCEPT !.withdrawals = {RecordedWithdrawal},
                                      !.netEarnings = Int2Num(20)]

StatusNext ==
  \/ SubmitWithdrawal
  \/ CreateWithdrawal
  \/ RefetchWithdrawals
  \/ HandleStatusUpdate
  \/ CancelStatusChange
  \/ ConfirmStatusChange
  \/ ToggleSelected
  \/ HandleBulkStatusUpdate
  \/ PatchWithdrawal
  \/ DeleteWithdrawal

StatusSpec == StatusInit /\ [][StatusNext]_vars

(***************************************************************************)
(* POST /api/entries with its answers, on a database that holds a project  *)
(* or none and each configuration row or none                              *)
(***************************************************************************)
\* the insert moved in front of the configuration check
postEntriesWriteFirst(projectId, hours, manual) ==
  IF getProject(projectId) = {}
  THEN response' = 404 /\ UNCHANGED <<timeEntries, nextEntryId>>
  ELSE LET project == CHOOSE p \in getProject(projectId) : TRUE
       IN  /\ createTimeEntry(ComputeEntry(project, DefaultDeductionsRow,
                                            DefaultCurrencyRow, hours, manual))
           /\ response' = IF getDeductions = <<>> \/ getCurrencySettings = <<>>
                           THEN 500 ELSE 201

\* storage.ts 507-583: 404 without the project, 500 without a
\* configuration row, else the insert and 201
postEntries(projectId, hours, manual) ==
  IF getProject(projectId) = {}
  THEN response' = 404 /\ UNCHANGED <<timeEntries, nextEntryId>>
  ELSE IF getDeductions = <<>> \/ getCurrencySettings = <<>>
  THEN response' = 500 /\ UNCHANGED <<timeEntries, nextEntryId>>
  ELSE /\ PostEntriesHandler(projectId, hours, manual)
       /\ response' = 201

\* routes.ts 335-399: the same checks in the same order
postEntriesAuth(projectId, hours) ==
  IF getProject(projectId) = {}
  THEN response' = 404 /\ UNCHANGED <<timeEntries, nextEntryId>>
  ELSE IF getDeductions = <<>> \/ getCurrencySettings = <<>>
  THEN response' = 500 /\ UNCHANGED <<timeEntries, nextEntryId>>
  ELSE LET project == CHOOSE p \in getProject(projectId) : TRUE
       IN  /\ createTimeEntry(ComputeEntryAuth(project, getDeductions[1],
                                                getCurrencySettings[1], hours))
           /\ response' = 201

AnswerPostEntries ==
  /\ nextEntryId <= MaxEntries
  /\ \E projectId \in ProjectIds, hours \in HoursValues, manual \in ManualAmounts :
       postEntries(projectId, hours, manual)
  /\ UNCHANGED <<projects, deductions, currencySettings, nextProjectId,
                 withdrawalVars, parserVars, calls, instanceVars, migration, forms, history>>

AnswerPostEntriesAuth ==
  /\ nextEntryId <= MaxEntries
  /\ \E projectId \in ProjectIds, hours \in HoursValues :
       postEntriesAuth(projectId, hours)
  /\ UNCHANGED <<projects, deductions, currencySettings, nextProjectId,
                 withdrawalVars, parserVars, calls, instanceVars, migration, forms, history>>

RequestInit ==
  /\ \E type \in ProjectTypes :
       projects \in {{}, {[id |-> 1, rate |-> Int2Num(25), type |-> type]}}
  /\ deductions \in {<<>>, <<DefaultDeductionsRow>>}
  /\ currencySettings \in {<<>>, <<DefaultCurrencyRow>>}
  /\ timeEntries = {}
  /\ nextProjectId = 2
  /\ nextEntryId = 1
  /\ withdrawals = {}
  /\ nextWithdrawalId = 1
  /\ calls = NoCalls
  /\ ColdStart
  /\ migration = NotMigrated
  /\ ParserIdle
  /\ ClientIdle

RequestNext ==
  \/ AnswerPostEntries
  \/ AnswerPostEntriesAuth
  \/ UpdateDeductions
  \/ UpdateCurrencySettings
  \/ DeleteProject
  \/ DeleteEntry

RequestSpec == RequestInit /\ [][RequestNext]_vars

(***************************************************************************)
(* updateDeductions and updateCurrencySettings (storage.ts 89-122) as the  *)
(* two awaited statements they are, for calls that overlap                 *)
(***************************************************************************)
\* const existing = await this.getDeductions()
BeginUpdateDeductions ==
  /\ \E c \in Callers :
       /\ calls[c].pc = "idle"
       /\ calls' = [calls EXCEPT ![c] = [pc |-> "updateDeductions",
                                         existing |-> getDeductions]]
  /\ UNCHANGED <<ledgerVars, parserVars, clientVars, instanceVars, migration>>

\* if (existing) update ... where id = existing.id, else insert
FinishUpdateDeductions ==
  /\ \E c \in Callers, updateData \in DeductionPatches :
       /\ calls[c].pc = "updateDeductions"
       /\ LET existing == calls[c].existing
              set(row) ==
                [id |-> row.id,
                 serviceFee |-> OrElse(updateData.serviceFee, row.serviceFee),
                 tds |-> OrElse(updateData.tds, row.tds),
                 gst |-> OrElse(updateData.gst, row.gst),
                 transferFee |-> OrElse(updateData.transferFee, row.transferFee)]
          IN  IF existing # <<>>
              THEN deductions' =
                     [i \in DOMAIN deductions |->
                        IF deductions[i].id = existing[1].id
                        THEN set(deductions[i]) ELSE deductions[i]]
              ELSE deductions' =
                     Append(deductions,
                            set([DefaultDeductionsRow EXCEPT !.id = Len(deductions) + 1]))
       /\ calls' = [calls EXCEPT ![c] = NoCalls[c]]
  /\ UNCHANGED <<projects, currencySettings, timeEntries, nextProjectId,
                 nextEntryId, withdrawalVars, parserVars, clientVars, instanceVars, migration>>

\* const existing = await this.getCurrencySettings()
BeginUpdateCurrencySettings ==
  /\ \E c \in Callers :
       /\ calls[c].pc = "idle"
       /\ calls' = [calls EXCEPT ![c] = [pc |-> "updateCurrencySettings",
                                         existing |-> getCurrencySettings]]
  /\ UNCHANGED <<ledgerVars, parserVars, clientVars, instanceVars, migration>>

\* if (existing) update ... where id = existing.id, else insert
FinishUpdateCurrencySettings ==
  /\ \E c \in Callers, updateData \in CurrencyPatches :
       /\ calls[c].pc = "updateCurrencySettings"
       /\ LET existing == calls[c].existing
              set(row) ==
                [id |-> row.id, usdToInr |-> OrElse(updateData.usdToInr, row.usdToInr)]
          IN  IF existing # <<>>
              THEN currencySettings' =
                     [i \in DOMAIN currencySettings |->
                        IF currencySettings[i].id = existing[1].id
                        THEN set(currencySettings[i]) ELSE currencySettings[i]]
              ELSE currencySettings' =
                     Append(currencySettings,
                            set([DefaultCurrencyRow EXCEPT
                                   !.id = Len(currencySettings) + 1]))
       /\ calls' = [calls EXCEPT ![c] = NoCalls[c]]
  /\ UNCHANGED <<projects, deductions, timeEntries, nextProjectId,
                 nextEntryId, withdrawalVars, parserVars, clientVars, instanceVars, migration>>

OverlapNext ==
  \/ BeginUpdateDeductions
  \/ FinishUpdateDeductions
  \/ BeginUpdateCurrencySettings
  \/ FinishUpdateCurrencySettings

OverlapSpec == Init /\ [][OverlapNext]_vars

(***************************************************************************)
(* The three places that compute the earnings of an hourly entry: the      *)
(* calculator dialog, the estimate of the entry form, and POST /api/entries*)
(***************************************************************************)
\* minutes parsed from the time typed: 1h 30m
MinuteInputs == {Int2Num(90)}

\* calculateEarnings of the dialog (earnings-calculator.tsx 47-69)
calculateEarnings(project, ded, cur, minutes) ==
  LET hoursDecimal == minutesToHoursDecimal(minutes)
      rate == project.rate
      grossUsd == Mul(hoursDecimal, rate)
      serviceFeePercent == OrZero(ded.serviceFee)
      tdsPercent == OrZero(ded.tds)
      gstPercent == OrZero(ded.gst)
      transferFee == OrZero(ded.transferFee)
      serviceAmt == Mul(grossUsd, Div(serviceFeePercent, Hundred))
      tdsAmt == Mul(grossUsd, Div(tdsPercent, Hundred))
      gstAmt == Mul(serviceAmt, Div(gstPercent, Hundred))
      transferAmt == transferFee
      totalDeductions == Add(Add(Add(serviceAmt, tdsAmt), gstAmt), transferAmt)
      netUsd == MathMax(Int2Num(0), Sub(grossUsd, totalDeductions))
      exchangeRate == OrZero(cur.usdToInr)
      netInr == Mul(netUsd, exchangeRate)
  IN  [totalDeductions |-> totalDeductions, netUsd |-> netUsd, netInr |-> netInr]

\* the estimate the entry form shows for an hourly project
\* (entry-form.tsx 71-94)
setCalculated(project, ded, cur, minutes) ==
  LET hoursDecimal == minutesToHoursDecimal(minutes)
      gross == Mul(hoursDecimal, project.rate)
      serviceFeePercent == OrZero(ded.serviceFee)
      tdsPercent == OrZero(ded.tds)
      gstPercent == OrZero(ded.gst)
      serviceAmt == Mul(gross, Div(serviceFeePercent, Hundred))
      tdsAmt == Mul(gross, Div(tdsPercent, Hundred))
      gstAmt == Mul(serviceAmt, Div(gstPercent, Hundred))
      totalDeductions == Add(Add(serviceAmt, tdsAmt), gstAmt)
      netUsd == MathMax(Int2Num(0), Sub(gross, totalDeductions))
      netInr == Mul(netUsd, cur.usdToInr)
  IN  [totalDeductions |-> totalDeductions, netUsd |-> netUsd, netInr |-> netInr]

\* what POST /api/entries stores for the hours the form sends
entryEarnings(entry) ==
  [totalDeductions |-> entry.deductionTotal, netUsd |-> entry.netUsd,
   netInr |-> entry.netInr]

\* nothing has been computed yet
NothingComputed ==
  [place \in {"calculator", "estimate", "created", "createdAuth"} |-> <<>>]

\* one of the three computes the earnings of some minutes from the project
\* and the configuration of the moment
Computed(place, out(_, _, _, _)) ==
  \E minutes \in MinuteInputs, project \in projects :
    LET ded == getDeductions[1]
        cur == getCurrencySettings[1]
    IN  forms' = [forms EXCEPT ![place] =
                    [minutes |-> minutes, project |-> project, ded |-> ded,
                     cur |-> cur, out |-> out(project, ded, cur, minutes)]]

OpenCalculator ==
  /\ Computed("calculator", calculateEarnings)
  /\ UNCHANGED <<ledgerVars, parserVars, calls, instanceVars, migration, history, response>>

WatchEntryForm ==
  /\ Computed("estimate", setCalculated)
  /\ UNCHANGED <<ledgerVars, parserVars, calls, instanceVars, migration, history, response>>

ComputeCreated ==
  /\ LET created(project, ded, cur, minutes) ==
           entryEarnings(ComputeEntry(project, ded, cur,
                                      minutesToHoursDecimal(minutes), Absent))
     IN  Computed("created", created)
  /\ UNCHANGED <<ledgerVars, parserVars, calls, instanceVars, migration, history, response>>

ComputeCreatedAuth ==
  /\ LET created(project, ded, cur, minutes) ==
           entryEarnings(ComputeEntryAuth(project, ded, cur,
                                          minutesToHoursDecimal(minutes)))
     IN  Computed("createdAuth", created)
  /\ UNCHANGED <<ledgerVars, parserVars, calls, instanceVars, migration, history, response>>

EarningsInit ==
  /\ projects = {HourlyProject}
  /\ deductions = <<DefaultDeductionsRow>>
  /\ currencySettings = <<DefaultCurrencyRow>>
  /\ timeEntries = {}
  /\ nextProjectId = 3
  /\ nextEntryId = 1
  /\ withdrawals = {}
  /\ nextWithdrawalId = 1
  /\ calls = NoCalls
  /\ ColdStart
  /\ migration = NotMigrated
  /\ ParserIdle
  /\ forms = NothingComputed
  /\ history = <<>>
  /\ response = NoResponse

EarningsNext ==
  \/ OpenCalculator
  \/ WatchEntryForm
  \/ ComputeCreated
  \/ ComputeCreatedAuth
  \/ UpdateDeductions
  \/ UpdateCurrencySettings

EarningsSpec == EarningsInit /\ [][EarningsNext]_vars

(***************************************************************************)
(* The serverless entry point (api/[...].ts 46-130): requests handled by   *)
(* one function instance, interleaved at the awaits of getApp              *)
(***************************************************************************)
At(c, pc) == [calls EXCEPT ![c].pc = pc]

\* the default handler is called: getApp() runs up to its first await, or
\* returns the value of app at once
HandleRequest ==
  /\ \E c \in Callers :
       /\ calls[c].pc = "idle"
       /\ IF app = Null /\ ~initialized
          THEN /\ initialized' = TRUE
               /\ calls' = At(c, "importApp")
          ELSE /\ initialized' = initialized
               /\ calls' = At(c, IF app = Null THEN "App not initialized"
                                               ELSE "dispatched")
  /\ UNCHANGED <<ledgerVars, parserVars, clientVars, app, registered, migration>>

\* await import("../server/app.js")
ImportApp ==
  /\ \E c \in Callers :
       /\ calls[c].pc = "importApp"
       /\ calls' = At(c, "importRoutes")
  /\ UNCHANGED <<ledgerVars, parserVars, clientVars, instanceVars, migration>>

\* await import("../server/routes.js")
ImportRoutes ==
  /\ \E c \in Callers :
       /\ calls[c].pc = "importRoutes"
       /\ calls' = At(c, "registerRoutes")
  /\ UNCHANGED <<ledgerVars, parserVars, clientVars, instanceVars, migration>>

\* await registerRoutes(expressApp) succeeds: app = expressApp, and the
\* handler calls expressApp(req, res)
RegisterRoutes ==
  /\ \E c \in Callers :
       /\ calls[c].pc = "registerRoutes"
       /\ registered' = registered + 1
       /\ app' = "expressApp"
       /\ calls' = At(c, "dispatched")
  /\ UNCHANGED <<ledgerVars, parserVars, clientVars, initialized, migration>>

\* await registerRoutes(expressApp) throws: initialized = false, rethrown
RegisterRoutesFails ==
  /\ \E c \in Callers :
       /\ calls[c].pc = "registerRoutes"
       /\ initialized' = FALSE
       /\ calls' = At(c, "Initialization failed")
  /\ UNCHANGED <<ledgerVars, parserVars, clientVars, app, registered, migration>>

\* the request is answered: by the Express app, or with status 500 and the
\* message of the error caught
Respond ==
  /\ \E c \in Callers :
       /\ calls[c].pc \in {"dispatched", "App not initialized",
                           "Initialization failed"}
       /\ response' = IF calls[c].pc = "dispatched" THEN 200 ELSE 500
       /\ calls' = At(c, "idle")
  /\ UNCHANGED <<ledgerVars, parserVars, forms, history, instanceVars, migration>>

ServerlessNext ==
  \/ HandleRequest
  \/ ImportApp
  \/ ImportRoutes
  \/ RegisterRoutes
  \/ RegisterRoutesFails
  \/ Respond

ServerlessSpec == Init /\ [][ServerlessNext]_vars

(***************************************************************************)
(* The hours-to-minutes migration (scripts/migrate-to-minutes.ts and       *)
(* migrate-to-minutes.sql) on the rows of time_entries, of which only the  *)
(* columns id, hours, minutes, input_format and raw_input are kept here    *)
(***************************************************************************)
\* NULL in the integer column and in a text column
SqlNull == [k |-> "null", n |-> 0, d |-> 1]
NullText == <<"NULL">>

\* the largest value of the column type integer
MaxInt4 == 2147483647

\* the statement was rejected with 'integer out of range'
OutOfRange == [k |-> "error", n |-> 0, d |-> 1]

\* hours of the rows written before the migration: 1.5, 0.375, 0.33 and
\* 40000000 (the insert schema accepts any number)
LegacyHours ==
  {NumInput("fin", FALSE, 15, 1), NumInput("fin", FALSE, 375, 3),
   NumInput("fin", FALSE, 33, 2), NumInput("fin", FALSE, 40000000, 0)}

\* a row written by the hours-based code; input_format has its column
\* default once the column exists
LegacyRow(id, hours, columns) ==
  [id |-> id, hours |-> hours, minutes |-> SqlNull,
   input_format |-> IF columns THEN "fractional" ELSE "NULL",
   raw_input |-> NullText]

\* a row written by the minutes-based code: 1.30 typed, 90 minutes
MinutesRow(id) ==
  [id |-> id, hours |-> NumInput("fin", FALSE, 15, 1), minutes |-> Int2Num(90),
   input_format |-> "hm", raw_input |-> <<"1", ".", "3", "0">>]

\* the tables the migration may find
Tables(columns) ==
  LET rows == {LegacyRow(id, h, columns) : id \in 1..MaxRows, h \in LegacyHours}
                \cup (IF columns THEN {MinutesRow(id) : id \in 1..MaxRows} ELSE {})
  IN  {t \in SUBSET rows : \A r, q \in t : r.id = q.id => r = q}

\* ROUND(x) on double precision: the nearest integer, ties to the even one
SqlRound(x) ==
  LET q == x.n \div x.d
      r == x.n - q * x.d
  IN  IF 2 * r < x.d THEN q
      ELSE IF 2 * r > x.d THEN q + 1
      ELSE IF q % 2 = 0 THEN q ELSE q + 1

\* minutes = ROUND(COALESCE(hours, 0) * 60) for the NOT NULL column hours,
\* assigned to the integer column
RoundedMinutes(hours) ==
  LET h == NumberOf(hours)
      whole == h.n \div h.d
      part == SqlRound(Mul(Sub(h, Int2Num(whole)), Int2Num(60)))
      most == MaxInt4 \div 60
  IN  IF \/ whole > most
         \/ whole = most /\ part > MaxInt4 % 60
         \/ whole < -most - 1
         \/ whole = -most - 1 /\ part < 60 - (MaxInt4 % 60) - 1
      THEN OutOfRange
      ELSE IF whole = -most - 1
      THEN Int2Num((-MaxInt4 - 1) + (part - (60 - (MaxInt4 % 60) - 1)))
      ELSE Int2Num(whole * 60 + part)

\* ALTER TABLE time_entries ADD COLUMN for the columns that are missing
addColumns(rows, columns) ==
  IF columns THEN rows
  ELSE {[r EXCEPT !.minutes = SqlNull, !.input_format = "fractional",
                  !.raw_input = NullText] : r \in rows}

\* UPDATE time_entries SET minutes = ROUND(COALESCE(hours, 0) * 60),
\* input_format = 'fractional', raw_input = COALESCE(hours::text, '0')
\* WHERE minutes IS NULL: one statement, which changes no row when it fails
migrateData(rows) ==
  LET todo == {r \in rows : r.minutes = SqlNull}
  IN  IF \E r \in todo : RoundedMinutes(r.hours) = OutOfRange
      THEN [ok |-> FALSE, rows |-> rows]
      ELSE [ok |-> TRUE,
            rows |-> (rows \ todo) \cup
                     {[r EXCEPT !.minutes = RoundedMinutes(r.hours),
                                !.input_format = "fractional",
                                !.raw_input = NumberToString(r.hours)] : r \in todo}]

\* step 5 of the script: COALESCE defaults WHERE minutes IS NULL OR
\* input_format IS NULL
setDefaults(rows) ==
  {IF r.minutes = SqlNull \/ r.input_format = "NULL"
   THEN [r EXCEPT !.minutes = IF @ = SqlNull THEN Int2Num(0) ELSE @,
                  !.input_format = IF @ = "NULL" THEN "fractional" ELSE @,
                  !.raw_input = IF @ = NullText THEN <<"0">> ELSE @]
   ELSE r : r \in rows}

\* step 3 of the SQL file: minutes = 0, input_format = 'fractional',
\* raw_input = '0' WHERE minutes IS NULL
setZero(rows) ==
  {IF r.minutes = SqlNull
   THEN [r EXCEPT !.minutes = Int2Num(0), !.input_format = "fractional",
                  !.raw_input = <<"0">>]
   ELSE r : r \in rows}

\* migrate() of the script: a failing statement ends the run (exit 1) with
\* the statements before it committed
migrate(rows, columns) ==
  LET migrated == migrateData(addColumns(rows, columns))
  IN  IF migrated.ok
      THEN [outcome |-> "done", rows |-> setDefaults(migrated.rows)]
      ELSE [outcome |-> "failed", rows |-> migrated.rows]

\* the SQL file run with psql -f: psql reports a failing statement and goes
\* on with the next one
migrateSql(rows, columns) ==
  [outcome |-> "done",
   rows |-> setZero(migrateData(addColumns(rows, columns)).rows)]

\* tsx scripts/migrate-to-minutes.ts
RunMigration ==
  /\ migration.runs < MaxRuns
  /\ LET run == migrate(timeEntries, migration.columns)
     IN  /\ timeEntries' = run.rows
         /\ migration' = [columns |-> TRUE, outcome |-> run.outcome,
                          runs |-> migration.runs + 1]
  /\ UNCHANGED <<projects, deductions, currencySettings, nextProjectId,
                 nextEntryId, withdrawalVars, parserVars, clientVars, calls,
                 instanceVars>>

\* psql $DATABASE_URL -f scripts/migrate-to-minutes.sql
RunSqlMigration ==
  /\ migration.runs < MaxRuns
  /\ LET run == migrateSql(timeEntries, migration.columns)
     IN  /\ timeEntries' = run.rows
         /\ migration' = [columns |-> TRUE, outcome |-> run.outcome,
                          runs |-> migration.runs + 1]
  /\ UNCHANGED <<projects, deductions, currencySettings, nextProjectId,
                 nextEntryId, withdrawalVars, parserVars, clientVars, calls,
                 instanceVars>>

MigrationInit ==
  /\ projects = {}
  /\ deductions = <<>>
  /\ currencySettings = <<>>
  /\ nextProjectId = 1
  /\ nextEntryId = 1
  /\ withdrawals = {}
  /\ nextWithdrawalId = 1
  /\ calls = NoCalls
  /\ ColdStart
  /\ ParserIdle
  /\ ClientIdle
  /\ \E columns \in BOOLEAN :
       /\ migration = [NotMigrated EXCEPT !.columns = columns]
       /\ timeEntries \in Tables(columns)

MigrationNext ==
  \/ RunMigration
  \/ RunSqlMigration

MigrationSpec == MigrationInit /\ [][MigrationNext]_vars

(***************************************************************************)
(* Reading an input as a decimal numeral, for stating the properties       *)
(***************************************************************************)
\* index of the first "." of s, 0 when there is none
DotIndex(s) ==
  IF \E i \in 1..Len(s) : s[i] = "."
  THEN CHOOSE i \in 1..Len(s) : s[i] = "." /\ \A j \in 1..(i - 1) : s[j] # "."
  ELSE 0

\* digits, at most one ".", at least one digit
IsDecimalText(s) ==
  /\ \A i \in 1..Len(s) : s[i] \in Digits \cup {"."}
  /\ Cardinality({i \in 1..Len(s) : s[i] = "."}) <= 1
  /\ \E i \in 1..Len(s) : s[i] \in Digits

IntegerDigits(s) ==
  IF DotIndex(s) = 0 THEN s ELSE SubSeq(s, 1, DotIndex(s) - 1)

DecimalDigits(s) ==
  IF DotIndex(s) = 0 THEN <<>> ELSE SubSeq(s, DotIndex(s) + 1, Len(s))

\* the text a valid non-negative decimal input is read from
DecimalText(v) == IF v.kind = "string" THEN Trim(v.s) ELSE NumberToString(v)

IsDecimalInput(v) ==
  IF v.kind = "string" THEN IsDecimalText(Trim(v.s))
  ELSE v.sp = "fin" /\ (~v.neg \/ v.m = 0)

\* the first two decimal digits as a minute count, one digit padded with 0
MinuteCount(ds) ==
  IF Len(ds) = 0 THEN 0
  ELSE IF Len(ds) = 1 THEN 10 * DigitVal(ds[1])
  ELSE 10 * DigitVal(ds[1]) + DigitVal(ds[2])

\* the exact value of a decimal input
DecimalValue(v) ==
  LET t == DecimalText(v)
  IN  Fin(DigitsValue(IntegerDigits(t)) * Pow10(Len(DecimalDigits(t)))
            + DigitsValue(DecimalDigits(t)),
          Pow10(Len(DecimalDigits(t))))

Text175 == <<"1", ".", "7", "5">>
Text167 == <<"1", ".", "6", "7">>
Text15 == <<"1", ".", "5">>

(***************************************************************************)
(* C1: with format "hm" a valid non-negative decimal input yields          *)
(* minutes = 60 * (integer part) + M, M the first two decimal digits read  *)
(* as a minute count (one digit padded with 0, none gives 0), hadOverflow  *)
(* exactly when M >= 60, and no carry is applied (1.5 gives 110).          *)
(***************************************************************************)
C1_HmLiteralSum ==
  (parserPc # "ready" /\ opts.format = "hm" /\ IsDecimalInput(value)) =>
    LET t == DecimalText(value)
        M == MinuteCount(DecimalDigits(t))
    IN  /\ parsed.status = "ok"
        /\ parsed.minutes = Int2Num(60 * DigitsValue(IntegerDigits(t)) + M)
        /\ parsed.hadOverflow = (M >= 60)
        /\ (t = Text15 => parsed.minutes = Int2Num(110))

C1_Witness ==
  /\ parserPc = "returned"
  /\ opts.format = "hm"
  /\ value = NumInput("fin", FALSE, 150, 2)
  /\ parsed.minutes = Int2Num(110)
  /\ ~parsed.hadOverflow

(***************************************************************************)
(* C2: parseTimeInput("1.75", {format: "hm"}) returns hadOverflow = true   *)
(* and minutes = 135, the literal sum 60 + 75 (as first stated: 155).      *)
(***************************************************************************)
C2_OneSeventyFive ==
  (parserPc # "ready" /\ opts.format = "hm" /\ value = StrInput(Text175)) =>
    /\ parserPc = "returned"
    /\ parsed.minutes = Int2Num(135)
    /\ parsed.hadOverflow

\* C2 as first stated: minutes = 155
C2_Original ==
  (parserPc # "ready" /\ opts.format = "hm" /\ value = StrInput(Text175)) =>
    /\ parserPc = "returned"
    /\ parsed.minutes = Int2Num(155)
    /\ parsed.hadOverflow

C2_Witness ==
  /\ parserPc = "returned"
  /\ opts.format = "hm"
  /\ value = StrInput(Text175)
  /\ parsed.hadOverflow

C5_RejectsInvalid ==
  LET numeric == IF value.kind = "number" THEN NumberOf(value)
                 ELSE ParseFloat(Trim(value.s))
  IN  (parserPc # "ready" /\ (numeric.k # "fin" \/ numeric.n < 0)) =>
        /\ parserPc = "threw"
        /\ parsed.status = "error"

(***************************************************************************)
(* C6: an explicit options.format decides the rule and the heuristic is    *)
(* not consulted; with format omitted the heuristic decides unless         *)
(* allowLegacyInference is false, and then the rule is H.MM.  The format   *)
(* field names the rule used and usedLegacyFractional is true exactly for  *)
(* the fractional rule.                                                    *)
(***************************************************************************)
C6_FormatAuthority ==
  parserPc # "ready" =>
    LET rule == IF opts.format # "unset" THEN opts.format
                ELSE IF opts.allowLegacyInference = "false" THEN "hm"
                ELSE IF inferred = "legacy" THEN "fractional" ELSE "hm"
        byRule == IF rule = "fractional" THEN parseFractional(value) ELSE parseHm(value)
    IN  /\ opts.format # "unset" => inferred = "unset"
        /\ opts.allowLegacyInference = "false" => inferred = "unset"
        /\ (opts.format = "unset" /\ opts.allowLegacyInference # "false")
             => inferred # "unset"
        /\ parsed.status = byRule.status
        /\ parserPc = "returned" =>
             /\ parsed.format = rule
             /\ parsed.usedLegacyFractional = (rule = "fractional")
             /\ parsed.minutes = byRule.minutes
             /\ parsed.hadOverflow = byRule.hadOverflow

\* an explicit "hm" wins over a value the heuristic would call fractional
C6_Witness ==
  /\ parserPc = "returned"
  /\ opts.format = "hm"
  /\ value = StrInput(Text15)
  /\ shouldInferLegacy(value)
  /\ parsed.format = "hm"
  /\ ~parsed.usedLegacyFractional
  /\ parsed.minutes = Int2Num(110)

(***************************************************************************)
(* C7: with format "fractional" a valid non-negative value yields          *)
(* minutes = round(value * 60), the nearest integer with ties upwards,     *)
(* and hadOverflow = false; the number 1.5 yields 90.                      *)
(***************************************************************************)
C7_FractionalRound ==
  (parserPc # "ready" /\ opts.format = "fractional" /\ IsDecimalInput(value)) =>
    LET x == DecimalValue(value)
        m == parsed.minutes
    IN  /\ parserPc = "returned"
        /\ IsInteger(m)
        /\ (2 * m.n - 1) * x.d <= 120 * x.n
        /\ 120 * x.n < (2 * m.n + 1) * x.d
        /\ ~parsed.hadOverflow
        /\ value = NumInput("fin", FALSE, 15, 1) => m = Int2Num(90)

\* 0.17 hours = 10.2 minutes rounds to 10; 0.16 hours = 9.6 rounds to 10
C7_Witness ==
  /\ parserPc = "returned"
  /\ opts.format = "fractional"
  /\ value = StrInput(<<"0", ".", "1", "6">>)
  /\ parsed.minutes = Int2Num(10)
  /\ parsed.usedLegacyFractional

(***************************************************************************)
(* C8: a non-negative integer n written without a decimal part yields      *)
(* minutes = 60 * n under every choice of options.                         *)
(***************************************************************************)
C8_IntegerRoundTrip ==
  (parserPc # "ready" /\ IsDecimalInput(value)
     /\ DotIndex(DecimalText(value)) = 0) =>
    /\ parserPc = "returned"
    /\ parsed.minutes = Int2Num(60 * DigitsValue(DecimalText(value)))

C8_Witness ==
  /\ parserPc = "returned"
  /\ opts.format = "unset"
  /\ opts.allowLegacyInference = "unset"
  /\ value = NumInput("fin", FALSE, 7, 0)
  /\ inferred = "hm"
  /\ parsed.minutes = Int2Num(420)

(***************************************************************************)
(* C9: an untagged value with two decimal digits that cannot be a          *)
(* fractional-hours reading (minute digits 60..99, such as 1.60 or 1.75)   *)
(* is inferred as H.MM and parsed with the hm rule.                        *)
(***************************************************************************)
C9_OverflowIsHm ==
  (inferred # "unset" /\ value.kind = "string" /\ IsDecimalText(value.s)
     /\ Len(DecimalDigits(value.s)) = 2
     /\ MinuteCount(DecimalDigits(value.s)) >= 60) =>
    /\ inferred = "hm"
    /\ parsed.format = "hm"

(***************************************************************************)
(* C3: every TimeEntry the server creates with grossUsd >= 0 has           *)
(* deductionTotal = deductionService + deductionTds + deductionGst +       *)
(* deductionTransfer and netUsd = max(0, grossUsd - deductionTotal).       *)
(***************************************************************************)
C3_DeductionIdentity ==
  \A e \in timeEntries :
    Geq(e.grossUsd, Int2Num(0)) =>
      /\ e.deductionTotal =
           Add(Add(Add(e.deductionService, e.deductionTds), e.deductionGst),
               e.deductionTransfer)
      /\ e.netUsd = MathMax(Int2Num(0), Sub(e.grossUsd, e.deductionTotal))

Within(x, target, tol) ==
  Geq(x, Sub(target, tol)) /\ Geq(Add(target, tol), x)

Zero == Int2Num(0)

(***************************************************************************)
(* C11: in every reachable state every stored TimeEntry has grossUsd >= 0, *)
(* each of the four deduction components >= 0 and netUsd >= 0, whatever    *)
(* hours, amounts, rates and deduction configuration were submitted.       *)
(***************************************************************************)
C11_NonNegative ==
  \A e \in timeEntries :
    /\ Geq(e.grossUsd, Zero)
    /\ Geq(e.deductionService, Zero)
    /\ Geq(e.deductionTds, Zero)
    /\ Geq(e.deductionGst, Zero)
    /\ Geq(e.deductionTransfer, Zero)
    /\ Geq(e.netUsd, Zero)

(***************************************************************************)
(* C13: an hourly entry of 110 minutes created for a project of rate 25    *)
(* under serviceFee 10, tds 0.1, gst 18, transferFee 0.99 and exchange     *)
(* rate 84 is stored with grossUsd 45.8333, deductionService 4.58333,      *)
(* deductionTds 0.045833, deductionGst 0.825, deductionTransfer 0.99,      *)
(* deductionTotal 6.44417, netUsd 39.3892 and netInr 3308.89, each to the  *)
(* last digit printed.                                                     *)
(***************************************************************************)
C13_WorkedExample ==
  [][\A e \in timeEntries' \ timeEntries :
       ( /\ e.hours = Fin(110, 60)
         /\ \E p \in projects :
              p.id = e.projectId /\ p.rate = Int2Num(25) /\ p.type = "hourly"
         /\ deductions[1].serviceFee = Int2Num(10)
         /\ deductions[1].tds = Fin(1, 10)
         /\ deductions[1].gst = Int2Num(18)
         /\ deductions[1].transferFee = Fin(99, 100)
         /\ currencySettings[1].usdToInr = Int2Num(84) )
       => /\ Within(e.grossUsd, Fin(458333, 10000), Fin(5, 100000))
          /\ Within(e.deductionService, Fin(458333, 100000), Fin(5, 1000000))
          /\ Within(e.deductionTds, Fin(45833, 1000000), Fin(5, 10000000))
          /\ e.deductionGst = Fin(825, 1000)
          /\ e.deductionTransfer = Fin(99, 100)
          /\ Within(e.deductionTotal, Fin(644417, 100000), Fin(5, 1000000))
          /\ Within(e.netUsd, Fin(393892, 10000), Fin(5, 100000))
          /\ Within(e.netInr, Fin(330889, 100), Fin(5, 1000))]_vars

(***************************************************************************)
(* C18: after deleteProject(id) no TimeEntry with projectId = id exists,   *)
(* and after every step each TimeEntry's projectId refers to an existing   *)
(* project (no orphan entries).                                            *)
(***************************************************************************)
ProjectIdsOf(ps) == {p.id : p \in ps}

C18_DeleteCascade ==
  [][/\ \A e \in timeEntries' : e.projectId \in ProjectIdsOf(projects')
     /\ \A id \in ProjectIdsOf(projects) \ ProjectIdsOf(projects') :
          \A e \in timeEntries' : e.projectId # id]_vars

\* the project and its entry were created and neither is left
C18_Witness ==
  /\ projects = {}
  /\ nextProjectId > 1
  /\ nextEntryId > 1
  /\ timeEntries = {}

(***************************************************************************)
(* C19: there is never a second configuration row; a call of               *)
(* updateDeductions (likewise updateCurrencySettings) that changes the     *)
(* table leaves exactly one row; when a row existed it is that row, with   *)
(* the same id, the fields named in the update set to the given values and *)
(* every other field as before.                                            *)
(***************************************************************************)
DeductionFields == {"serviceFee", "tds", "gst", "transferFee"}

C12_FixedGrossIsManual ==
  [][\A projectId \in ProjectIds, hours \in HoursValues, manual \in ManualAmounts :
       ( /\ PostEntriesHandler(projectId, hours, manual)
         /\ \E p \in projects : p.id = projectId /\ p.type = "fixed" )
       => \A e \in timeEntries' \ timeEntries :
            e.grossUsd = IF manual = NaN THEN Zero ELSE manual]_vars

(***************************************************************************)
(* The budget of a fixed project, for stating the properties               *)
(***************************************************************************)
\* the sum of grossUsd over the entries of es whose projectId is id
RECURSIVE GrossPaidTo(_, _)
GrossPaidTo(id, es) ==
  IF es = {} THEN Zero
  ELSE LET e == CHOOSE x \in es : TRUE
       IN  Add(IF e.projectId = id THEN e.grossUsd ELSE Zero,
               GrossPaidTo(id, es \ {e}))

\* max(0, rate - paid), written by cases
BudgetLeft(project, es) ==
  IF Geq(project.rate, GrossPaidTo(project.id, es))
  THEN Sub(project.rate, GrossPaidTo(project.id, es))
  ELSE Zero

ProjectOf(s) == CHOOSE p \in projects : p.id = forms[s].projectId

(***************************************************************************)
(* C16: a milestone submission for a fixed project whose amount exceeds    *)
(* the remaining budget of the entries the form holds (for example         *)
(* remaining + 0.02 after accepted milestones) ends in a Budget Exceeded   *)
(* toast carrying that remaining amount; no request is sent and no         *)
(* TimeEntry is created.                                                   *)
(***************************************************************************)
C16_BudgetExceededRejected ==
  [][\A s \in Sessions :
       ( /\ onSubmit(s)
         /\ ProjectOf(s).type = "fixed"
         /\ Gt(forms[s].amount, BudgetLeft(ProjectOf(s), forms[s].entries)) )
       => /\ forms'[s].toast =
               [title |-> "Budget Exceeded",
                remaining |-> BudgetLeft(ProjectOf(s), forms[s].entries)]
          /\ forms'[s].pc = "idle"
          /\ timeEntries' = timeEntries]_vars

\* after one accepted milestone of 30 out of 50, a submission of 20.02 on
\* the refreshed list was answered with the remaining 20
C16_Witness ==
  \E s \in Sessions :
    /\ forms[s].entries = timeEntries
    /\ GrossPaidTo(FixedProject.id, timeEntries) = Int2Num(30)
    /\ forms[s].amount = Fin(2002, 100)
    /\ forms[s].pc = "idle"
    /\ forms[s].toast = [title |-> "Budget Exceeded", remaining |-> Int2Num(20)]

(***************************************************************************)
(* C17: the create-milestone sequence is not atomic: the request of a      *)
(* submission that passed the form's check is written when it arrives,     *)
(* whatever has been stored since the form read its entries; two           *)
(* submissions validated against the same list are both written and the    *)
(* project's summed grossUsd exceeds project.rate.                         *)
(***************************************************************************)
C17_WriteAfterStaleCheck ==
  [][\A s \in Sessions :
       (createEntry(s) /\ Truthy(forms[s].amount))
       => \E e \in timeEntries' \ timeEntries :
            /\ e.projectId = forms[s].projectId
            /\ e.grossUsd = forms[s].amount]_vars

\* both sessions have submitted a milestone of 30 for the project of 50,
\* each validated against the list fetched before either was written, and
\* both are stored
C17_Witness ==
  /\ \A s \in Sessions :
       /\ forms[s].entries = {LoggedEntry}
       /\ forms[s].toast.title = "Milestone Submitted"
  /\ Cardinality(timeEntries) = 3
  /\ \A e \in timeEntries \ {LoggedEntry} :
       e.projectId = FixedProject.id /\ e.grossUsd = Int2Num(30)
  /\ Gt(GrossPaidTo(FixedProject.id, timeEntries), FixedProject.rate)
  /\ \E e1, e2 \in timeEntries :
       /\ e1.id # e2.id
       /\ e1.projectId = FixedProject.id /\ e1.grossUsd = Int2Num(30)
       /\ e2.projectId = FixedProject.id /\ e2.grossUsd = Int2Num(30)
  /\ Gt(GrossPaidTo(FixedProject.id, timeEntries), FixedProject.rate)

(***************************************************************************)
(* C20: the remaining budget a form shows for its fixed project, and the   *)
(* one a Budget Exceeded toast carries, is max(0, project.rate - the sum   *)
(* of grossUsd over exactly the entries of that project in the form's      *)
(* list): entries of other projects do not change it and it is never       *)
(* negative, also when more than project.rate has been paid.               *)
(***************************************************************************)
C20_RemainingBudget ==
  \A s \in Sessions :
    ProjectOf(s).type = "fixed" =>
      LET own == {e \in forms[s].entries : e.projectId = forms[s].projectId}
      IN  /\ forms[s].remainingBudget = BudgetLeft(ProjectOf(s), forms[s].entries)
          /\ forms[s].remainingBudget = BudgetLeft(ProjectOf(s), own)
          /\ Geq(forms[s].remainingBudget, Zero)
          /\ forms[s].toast.title = "Budget Exceeded" =>
               Geq(forms[s].toast.remaining, Zero)

\* the list holds an entry of another project and more than the rate paid
C20_Witness ==
  \E s \in Sessions :
    /\ LoggedEntry \in forms[s].entries
    /\ Gt(GrossPaidTo(FixedProject.id, forms[s].entries), FixedProject.rate)
    /\ forms[s].remainingBudget = Zero

(***************************************************************************)
(* C15: when a withdrawal is created through the page's validation, with   *)
(* the validation holding of the entries and withdrawals stored at that    *)
(* moment, then right after the creation the sum of netEarnings over all   *)
(* withdrawals is at most the sum of netUsd over all time entries plus     *)
(* 0.01, however many withdrawals came before.                             *)
(***************************************************************************)
RECURSIVE NetUsdSum(_)
NetUsdSum(es) ==
  IF es = {} THEN Zero
  ELSE LET e == CHOOSE x \in es : TRUE IN Add(e.netUsd, NetUsdSum(es \ {e}))

RECURSIVE NetEarningsSum(_)
NetEarningsSum(ws) ==
  IF ws = {} THEN Zero
  ELSE LET w == CHOOSE x \in ws : TRUE IN Add(w.netEarnings, NetEarningsSum(ws \ {w}))

\* max(0, earned - withdrawn), written by cases
BalanceLeft(es, ws) ==
  IF Geq(NetUsdSum(es), NetEarningsSum(ws))
  THEN Sub(NetUsdSum(es), NetEarningsSum(ws))
  ELSE Zero

C15_WithdrawnWithinEarnings ==
  [][( /\ CreateWithdrawal
       /\ history.timeEntries = timeEntries
       /\ history.withdrawals = withdrawals
       /\ Geq(Add(BalanceLeft(timeEntries, withdrawals), Fin(1, 100)),
              history.netEarnings) )
     => Geq(Add(NetUsdSum(timeEntries'), Fin(1, 100)),
            NetEarningsSum(withdrawals'))]_vars

(***************************************************************************)
(* C21: the available balance the withdrawal page shows is                 *)
(* max(0, sum of netUsd over its time entries - sum of netEarnings over    *)
(* its withdrawals) and is never negative, also once entries or the        *)
(* project have been deleted after withdrawals were recorded.              *)
(***************************************************************************)
C21_BalanceClamped ==
  history # <<>> =>
    LET shown == availableBalance(history.timeEntries, history.withdrawals)
    IN  /\ shown = BalanceLeft(history.timeEntries, history.withdrawals)
        /\ shown.k = "fin"
        /\ shown.n >= 0

\* the page lists a withdrawal and no entry any more: the project was
\* deleted after the withdrawal had been recorded
C21_Witness ==
  /\ history # <<>>
  /\ projects = {}
  /\ history.timeEntries = {}
  /\ \E w \in history.withdrawals : w.netEarnings = Int2Num(20)
  /\ availableBalance(history.timeEntries, history.withdrawals) = Zero

(***************************************************************************)
(* C22: a withdrawal request with netEarnings above the available balance  *)
(* (over the stored time entries and withdrawals) plus 0.01 is rejected    *)
(* and stores nothing: every withdrawal that a step adds to the stored     *)
(* withdrawals has netEarnings <= availableBalance + 0.01 as of the state  *)
(* in which the request is handled.                                        *)
(***************************************************************************)
C22_InsufficientFundsRejected ==
  [][\A w \in withdrawals' \ withdrawals :
       Geq(Add(BalanceLeft(timeEntries, withdrawals), Cent), w.netEarnings)]_vars

(***************************************************************************)
(* C23: every stored withdrawal has                                        *)
(* withdrawalAmount = netEarnings - transactionFee, whatever               *)
(* withdrawalAmount the caller supplied.                                   *)
(***************************************************************************)
C23_AmountComputed ==
  \A w \in withdrawals :
    w.withdrawalAmount = Sub(w.netEarnings, w.transactionFee)

(***************************************************************************)
(* C24: in every reachable state each withdrawal's paymentStatus is        *)
(* pending or received: no creation and no status update, by the page or   *)
(* by PATCH /api/withdrawals/:id, stores any other value.                  *)
(***************************************************************************)
C24_TwoStatuses ==
  \A w \in withdrawals : w.paymentStatus \in PaymentStatuses

(***************************************************************************)
(* C25: entry creation writes only after every check has passed: a request *)
(* for a project that does not exist is answered 404 and one made while    *)
(* the deduction or currency row is absent is answered 500, both leaving   *)
(* the stored time entries exactly as before; a successful creation is     *)
(* answered 201 and adds exactly one entry to those stored.                *)
(***************************************************************************)
RequestFails(projectId) ==
  \/ \A p \in projects : p.id # projectId
  \/ Len(deductions) = 0
  \/ Len(currencySettings) = 0

C25_WriteAfterChecks ==
  [][\A projectId \in ProjectIds, hours \in HoursValues, manual \in ManualAmounts :
       ( /\ postEntries(projectId, hours, manual) \/ postEntriesAuth(projectId, hours)
         /\ UNCHANGED <<projects, deductions, currencySettings>> )
         => IF RequestFails(projectId)
            THEN /\ timeEntries' = timeEntries
                 /\ response' \in {404, 500}
                 /\ response' = 404 <=> \A p \in projects : p.id # projectId
            ELSE /\ timeEntries \subseteq timeEntries'
                 /\ Cardinality(timeEntries' \ timeEntries) = 1
                 /\ response' = 201]_vars

\* one request has been refused for want of a configuration row, with the
\* project in place and nothing stored
C25_Witness ==
  /\ response = 500
  /\ projects # {}
  /\ currencySettings = <<>>
  /\ deductions # <<>>
  /\ timeEntries = {}
  /\ nextEntryId = 1

(***************************************************************************)
(* C26: milestones submitted one at a time never overspend a fixed         *)
(* project: when a submission of the entry form is stored while the form's *)
(* list is the stored one, the amount (zero and empty included) is not     *)
(* above the remaining budget of the stored entries and the project is not *)
(* overspent, then the project's summed grossUsd is at most project.rate   *)
(* afterwards as well.                                                     *)
(***************************************************************************)
C26_SequentialBudget ==
  [][\A s \in Sessions :
       ( /\ createEntry(s)
         /\ ProjectOf(s).type = "fixed"
         /\ forms[s].entries = timeEntries
         /\ ~Gt(forms[s].amount, BudgetLeft(ProjectOf(s), timeEntries))
         /\ Geq(ProjectOf(s).rate, GrossPaidTo(ProjectOf(s).id, timeEntries)) )
       => Geq(ProjectOf(s).rate, GrossPaidTo(ProjectOf(s).id, timeEntries'))]_vars

(***************************************************************************)
(* C27: at most one deduction-config row and at most one currency-config   *)
(* row exist in every reachable state, also when two calls of              *)
(* updateDeductions (or of updateCurrencySettings) overlap between the     *)
(* read of the existing row and the insert or update that follows it.      *)
(***************************************************************************)
C27_AtMostOneRow ==
  /\ Cardinality(DOMAIN deductions) <= 1
  /\ Cardinality(DOMAIN currencySettings) <= 1

(***************************************************************************)
(* C28: for the same minutes, project rate, deduction configuration and    *)
(* exchange rate, the calculator dialog, the entry-form estimate and the   *)
(* server's entry creation (either revision) compute the same total        *)
(* deductions, the same netUsd and the same netInr.                        *)
(***************************************************************************)
C28_SameEarnings ==
  \A p, q \in DOMAIN forms :
    (/\ forms[p] # <<>> /\ forms[q] # <<>>
     /\ forms[p].minutes = forms[q].minutes
     /\ forms[p].project = forms[q].project
     /\ forms[p].ded = forms[q].ded
     /\ forms[p].cur = forms[q].cur)
    => forms[p].out = forms[q].out

(***************************************************************************)
(* C29: a request that arrives while the one-time initialisation started   *)
(* by another request is still in progress is dispatched to the Express    *)
(* app once the initialisation has finished: no request ever fails with    *)
(* 'App not initialized', and registerRoutes completes at most once on the *)
(* app whatever the interleaving of requests.                              *)
(***************************************************************************)
C29_InitialisedOnce ==
  /\ \A c \in Callers : calls[c].pc # "App not initialized"
  /\ registered <= 1

(***************************************************************************)
(* C30: a run of the hours-to-minutes migration sets, for every row whose  *)
(* minutes is NULL, minutes to the integer nearest to hours * 60,          *)
(* input_format to 'fractional' and raw_input to the text of hours; it     *)
(* leaves every row that already has minutes as it is; afterwards no row   *)
(* has NULL minutes or NULL input_format; and a run after the first one    *)
(* changes no row.                                                         *)
(***************************************************************************)
C30_HoursMigrated ==
  [][migration'.runs # migration.runs =>
       /\ \A r \in timeEntries' :
            r.minutes # SqlNull /\ r.input_format # "NULL"
       /\ \A r \in timeEntries : r.minutes # SqlNull => r \in timeEntries'
       /\ \A r \in timeEntries : r.minutes = SqlNull =>
            \E q \in timeEntries' :
              /\ q.id = r.id
              /\ q.input_format = "fractional"
              /\ q.raw_input = NumberToString(r.hours)
              /\ LET h == NumberOf(r.hours)
                     whole == h.n \div h.d
                     m == q.minutes.n
                 IN  /\ m \div 60 \in {whole - 1, whole, whole + 1}
                     /\ 2 * Abs((m - whole * 60) * h.d - 60 * (h.n - whole * h.d))
                          <= h.d
       /\ migration.runs >= 1 => timeEntries' = timeEntries]_vars

====
